---- MODULE Spec2Model ----
(***************************************************************************)
(* A model of the virtual machine of src/src/virtual_machine.rs: the VM    *)
(* facade (start, run_thread, start_thread, error), the dispatch loop      *)
(* (run), nested invocation (run_code) and the instruction handlers the    *)
(* properties below are about.  One OS thread is one process of the model; *)
(* a step is what a thread does between two acquisitions of a lock shared  *)
(* with other threads.                                                     *)
(***************************************************************************)
EXTENDS Integers, Sequences, FiniteSets, TLC

VARIABLES
    threads,         \* VirtualMachine.threads: the registered thread objects
    exit_status,     \* VirtualMachine.exit_status: "Ok" or "Err"
    executed_files,  \* VirtualMachine.executed_files
    heap,            \* the memory manager's objects, by allocating thread
    thread,          \* the Thread value of each thread object
    frames,          \* each thread's call-frame chain, root frame first
    pc,              \* each OS thread's position in start / run_thread
    result,          \* run_thread's local `result`
    chan,            \* start_thread's hand-off channel of each worker
    parsed,          \* calls of bytecode_parser::parse_file, by path
    stderr,          \* what error() wrote, by thread
    returned,        \* what start() returned ("None" while it has not)
    stdout           \* the bytes the host's standard output has taken

vars == <<threads, exit_status, executed_files, heap, thread, frames, pc,
          result, chan, parsed, stderr, returned, stdout>>

----------------------------------------------------------------------------
(* Bounds of the model. *)

\* Worker OS threads that StartThread may spawn in one run; a StartThread
\* beyond it does not take place.
MaxWorkers == 2

\* The width of an integer of the VM (isize) in bits.  The hosts of the VM
\* have 64; the arithmetic is the same at every width, and the runs explored
\* take their operands from the ends of the range.
IsizeBits == 8

----------------------------------------------------------------------------
(* Threads and object handles. *)

Main == 0

Workers == 1..MaxWorkers

ThreadIds == {Main} \cup Workers

\* Option<RcObject>::None
NoObject == [space |-> "none", owner |-> -1, n |-> 0]

\* The n-th object allocated by thread t: a handle (an address).
Obj(t, n) == [space |-> "heap", owner |-> t, n |-> n]

\* The object allocate_thread made for thread t.
ThreadObj(t) == [space |-> "thread", owner |-> t, n |-> 0]

\* The memory manager's singletons.
Singleton(name) == [space |-> name, owner |-> -1, n |-> 0]

integer_prototype == Singleton("integer_prototype")

true_object == Singleton("true_object")

false_object == Singleton("false_object")

string_prototype == Singleton("string_prototype")

compiled_code_prototype == Singleton("compiled_code_prototype")

method_prototype == Singleton("method_prototype")

file_prototype == Singleton("file_prototype")

array_prototype == Singleton("array_prototype")

top_level == Singleton("top_level")

\* Option<usize>::None
NoTarget == -1

----------------------------------------------------------------------------
(* Compiled code: the bytecode the VM is given. *)

Ins(type, args) == [instruction_type |-> type, arguments |-> args]

Code(ins, ints, strs, objs) ==
    [instructions |-> ins, integer_literals |-> ints,
     string_literals |-> strs, code_objects |-> objs,
     required_arguments |-> 0, is_private |-> FALSE]

\* A compiled code that is a method body taking `required` arguments.
Method(code, required, private) ==
    [code EXCEPT !.required_arguments = required, !.is_private = private]

\* What a file that FileRead reads may hold.
FileContents == {"", "abc"}

\* isize::MIN and isize::MAX
MinInteger == -(2 ^ (IsizeBits - 1))

MaxInteger == 2 ^ (IsizeBits - 1) - 1

\* The value of isize that is congruent to x modulo 2^IsizeBits.
wrap(x) == ((x - MinInteger) % (2 ^ IsizeBits)) + MinInteger

\* The integer literals of the arithmetic runs explored, by name.
Operands == {"0", "-1", "3", "max", "min"}

operand(name) ==
    CASE name = "0" -> 0
      [] name = "-1" -> -1
      [] name = "1" -> 1
      [] name = "2" -> 2
      [] name = "3" -> 3
      [] name = "max" -> MaxInteger
      [] name = "min" -> MinInteger

\* The code objects a worker thread is started on in the runs explored.
WorkerCodes == <<"ret7", "fail", "loop", "file">>

\* The compiled-code values of the runs explored.  A code is named by a
\* sequence: its own name, then the names of its code objects when the
\* runs vary them.
CompiledCode(id) ==
    CASE id[1] = "ret7" ->
           Code(<<Ins("SetInteger", <<0, 0>>), Ins("Return", <<0>>)>>,
                <<7>>, <<>>, <<>>)
      [] id[1] = "fail" ->
           \* the second SetInteger names a literal the pool does not hold
           Code(<<Ins("SetInteger", <<0, 0>>), Ins("SetInteger", <<1, 5>>),
                  Ins("Return", <<0>>)>>,
                <<7>>, <<>>, <<>>)
      [] id[1] = "loop" ->
           \* two jumps that send the loop round for ever
           Code(<<Ins("Goto", <<1>>), Ins("Goto", <<0>>)>>, <<>>, <<>>, <<>>)
      [] id[1] = "file" ->
           Code(<<Ins("RunFileFast", <<0, 0>>), Ins("Return", <<0>>)>>,
                <<>>, <<"a">>, <<>>)
      [] id[1] = "deep" ->
           Code(<<Ins("RunFileFast", <<0, 0>>), Ins("SetInteger", <<1, 0>>),
                  Ins("Return", <<1>>)>>,
                <<3>>, <<"b">>, <<>>)
      [] id[1] = "spawn" ->
           Code(<<Ins("StartThread", <<0, 0>>), Ins("Return", <<0>>)>>,
                <<>>, <<>>, << <<"ret7">> >>)
      [] id[1] = "bad" ->
           Code(<<Ins("RunFileFast", <<0, 0>>)>>, <<>>, <<"bad">>, <<>>)
      [] id[1] = "root" ->
           \* two workers, then the file that a "file" worker runs too
           Code(<<Ins("StartThread", <<0, 0>>), Ins("StartThread", <<1, 1>>),
                  Ins("RunFileFast", <<2, 0>>), Ins("Return", <<2>>)>>,
                <<>>, <<"a">>, << <<id[2]>>, <<id[3]>> >>)
      [] id[1] = "root_nest" ->
           \* three workers in all: "spawn" starts one of its own
           Code(<<Ins("StartThread", <<0, 0>>), Ins("StartThread", <<1, 1>>),
                  Ins("SetInteger", <<2, 0>>), Ins("Return", <<2>>)>>,
                <<1>>, <<>>, << <<"spawn">>, <<"ret7">> >>)
      [] id[1] = "root_panic" ->
           \* a worker that divides by zero
           Code(<<Ins("StartThread", <<0, 0>>), Ins("Return", <<0>>)>>,
                <<>>, <<>>, << <<"arith", "IntegerDiv", "3", "0">> >>)
      [] id[1] = "root_fail" ->
           Code(<<Ins("StartThread", <<0, 0>>), Ins("SetInteger", <<1, 0>>),
                  Ins("SetInteger", <<2, 9>>)>>,
                <<1>>, <<>>, << <<"deep">> >>)
      [] id[1] = "root_bad" ->
           Code(<<Ins("StartThread", <<0, 0>>), Ins("RunFileFast", <<1, 0>>),
                  Ins("Return", <<1>>)>>,
                <<>>, <<"bad">>, << <<"bad">> >>)
      [] id[1] = "skip" ->
           \* a branch taken to the end of the code, over two instructions
           Code(<<Ins("SetInteger", <<1, 0>>), Ins("SetFalse", <<2>>),
                  Ins("GotoIfFalse", <<5, 2>>), Ins("SetInteger", <<1, 1>>),
                  Ins("Return", <<1>>)>>,
                <<1, 99>>, <<>>, <<>>)
      [] id[1] = "far" ->
           \* a branch taken over one instruction
           Code(<<Ins("SetTrue", <<0>>), Ins("GotoIfTrue", <<3, 0>>),
                  Ins("SetFalse", <<0>>), Ins("Return", <<0>>),
                  Ins("SetInteger", <<1, 0>>)>>,
                <<1>>, <<>>, <<>>)
      [] id[1] = "back" ->
           \* a branch taken to an index before the branch
           Code(<<Ins("SetTrue", <<0>>), Ins("GotoIfTrue", <<0, 0>>),
                  Ins("SetInteger", <<1, 0>>), Ins("Return", <<1>>)>>,
                <<1>>, <<>>, <<>>)
      [] id[1] = "near" ->
           \* a branch taken to the instruction that follows it
           Code(<<Ins("SetTrue", <<0>>), Ins("GotoIfTrue", <<2, 0>>),
                  Ins("SetInteger", <<1, 0>>), Ins("Return", <<1>>)>>,
                <<1>>, <<>>, <<>>)
      [] id[1] = "fall" ->
           \* a branch that is not taken
           Code(<<Ins("SetTrue", <<0>>), Ins("GotoIfFalse", <<3, 0>>),
                  Ins("SetInteger", <<1, 0>>), Ins("Return", <<1>>)>>,
                <<1>>, <<>>, <<>>)
      [] id[1] = "unset" ->
           \* branches on a register that is not set
           Code(<<Ins("GotoIfFalse", <<1, 3>>), Ins("GotoIfTrue", <<3, 3>>),
                  Ins("SetTrue", <<0>>), Ins("Return", <<0>>)>>,
                <<>>, <<>>, <<>>)
      [] id[1] = "ret_unset" ->
           Code(<<Ins("SetInteger", <<0, 0>>), Ins("Return", <<0>>),
                  Ins("Return", <<1>>), Ins("SetTrue", <<2>>)>>,
                <<7>>, <<>>, <<>>)
      [] id[1] = "ret_moment" ->
           Code(<<Ins("SetInteger", <<0, 0>>), Ins("Return", <<0>>),
                  Ins("SetInteger", <<0, 1>>)>>,
                <<7, 8>>, <<>>, <<>>)
      [] id[1] = "ret_last" ->
           Code(<<Ins("SetTrue", <<0>>), Ins("Return", <<0>>),
                  Ins("SetFalse", <<1>>), Ins("Return", <<1>>)>>,
                <<>>, <<>>, <<>>)
      [] id[1] = "noret" ->
           Code(<<Ins("SetInteger", <<0, 0>>), Ins("SetTrue", <<1>>)>>,
                <<7>>, <<>>, <<>>)
      [] id[1] = "jump" ->
           \* the Return is jumped over
           Code(<<Ins("SetInteger", <<0, 0>>), Ins("Goto", <<3>>),
                  Ins("Return", <<0>>), Ins("SetTrue", <<1>>)>>,
                <<7>>, <<>>, <<>>)
      [] id[1] = "empty" ->
           Code(<<>>, <<>>, <<>>, <<>>)
      [] id[1] = "m7" ->
           Code(<<Ins("SetInteger", <<0, 0>>), Ins("Return", <<0>>)>>,
                <<7>>, <<>>, <<>>)
      [] id[1] = "m8" ->
           Code(<<Ins("SetInteger", <<0, 0>>), Ins("Return", <<0>>)>>,
                <<8>>, <<>>, <<>>)
      [] id[1] = "m9" ->
           Code(<<Ins("SetInteger", <<0, 0>>), Ins("Return", <<0>>)>>,
                <<9>>, <<>>, <<>>)
      [] id[1] = "m1arg" ->
           Method(Code(<<Ins("SetInteger", <<0, 0>>), Ins("Return", <<0>>)>>,
                       <<7>>, <<>>, <<>>), 1, FALSE)
      [] id[1] = "m2arg" ->
           Method(Code(<<Ins("SetInteger", <<0, 0>>), Ins("Return", <<0>>)>>,
                       <<7>>, <<>>, <<>>), 2, FALSE)
      [] id[1] = "mpriv" ->
           Method(Code(<<Ins("SetInteger", <<0, 0>>), Ins("Return", <<0>>)>>,
                       <<7>>, <<>>, <<>>), 0, TRUE)
      [] id[1] = "mnone" ->
           Code(<<Ins("SetTrue", <<0>>)>>, <<>>, <<>>, <<>>)
      [] id[1] = "mretunset" ->
           Code(<<Ins("SetTrue", <<0>>), Ins("Return", <<0>>),
                  Ins("Return", <<1>>)>>,
                <<>>, <<>>, <<>>)
      [] id[1] = "mfail" ->
           \* the SetInteger names a literal the pool does not hold
           Code(<<Ins("SetInteger", <<0, 3>>), Ins("SetTrue", <<1>>)>>,
                <<>>, <<>>, <<>>)
      [] id[1] = "mrun" ->
           Code(<<Ins("SetCompiledCode", <<0, 0>>), Ins("SetInteger", <<1, 0>>),
                  Ins("RunCode", <<2, 0, 1>>), Ins("SetTrue", <<3>>)>>,
                <<0>>, <<>>, << <<"mfail">> >>)
      [] id[1] = "d_code" ->
           Code(<<Ins("SetObject", <<0>>), Ins("DefLiteralMethod", <<0, 0, 0>>),
                  Ins("Send", <<1, 0, 0, 0, 0>>), Ins("SetTrue", <<2>>)>>,
                <<>>, <<"m">>, << <<"mrun">> >>)
      [] id[1] = "send" ->
           \* Send of "m", defined as the code id[2], with allow_private 0
           \* and no argument
           Code(<<Ins("SetObject", <<0>>), Ins("DefLiteralMethod", <<0, 0, 0>>),
                  Ins("SetTrue", <<1>>), Ins("Send", <<1, 0, 0, 0, 0>>),
                  Ins("SetFalse", <<2>>), Ins("Return", <<1>>)>>,
                <<>>, <<"m">>, << <<id[2]>> >>)
      [] id[1] = "send_undef" ->
           Code(<<Ins("SetObject", <<0>>), Ins("DefLiteralMethod", <<0, 0, 0>>),
                  Ins("SetTrue", <<1>>), Ins("Send", <<1, 0, 1, 0, 0>>),
                  Ins("SetFalse", <<2>>), Ins("Return", <<1>>)>>,
                <<>>, <<"m", "n">>, << <<"m7">> >>)
      [] id[1] = "send_priv_ok" ->
           Code(<<Ins("SetObject", <<0>>), Ins("DefLiteralMethod", <<0, 0, 0>>),
                  Ins("SetTrue", <<1>>), Ins("Send", <<1, 0, 0, 1, 0>>),
                  Ins("SetFalse", <<2>>), Ins("Return", <<1>>)>>,
                <<>>, <<"m">>, << <<"mpriv">> >>)
      [] id[1] = "send_args" ->
           \* Send of "m", defined as the code id[2], with two arguments
           Code(<<Ins("SetObject", <<0>>), Ins("DefLiteralMethod", <<0, 0, 0>>),
                  Ins("SetTrue", <<1>>), Ins("SetFalse", <<2>>),
                  Ins("Send", <<3, 0, 0, 0, 2, 2, 1>>), Ins("Return", <<3>>)>>,
                <<>>, <<"m">>, << <<id[2]>> >>)
      [] id[1] = "send_short" ->
           \* Send that declares two arguments and names one register
           Code(<<Ins("SetObject", <<0>>), Ins("DefLiteralMethod", <<0, 0, 0>>),
                  Ins("SetTrue", <<1>>), Ins("SetFalse", <<2>>),
                  Ins("Send", <<3, 0, 0, 0, 2, 2>>), Ins("Return", <<3>>)>>,
                <<>>, <<"m">>, << <<"m2arg">> >>)
      [] id[1] = "run_short" ->
           \* RunCode that declares two arguments and names one register
           Code(<<Ins("SetCompiledCode", <<0, 0>>), Ins("SetInteger", <<1, 0>>),
                  Ins("SetTrue", <<2>>), Ins("SetFalse", <<3>>),
                  Ins("RunCode", <<2, 0, 1, 3>>), Ins("Return", <<2>>)>>,
                <<2>>, <<>>, << <<"m7">> >>)
      [] id[1] = "run_args" ->
           \* RunCode of the code id[2] with two arguments
           Code(<<Ins("SetCompiledCode", <<0, 0>>), Ins("SetInteger", <<1, 0>>),
                  Ins("SetTrue", <<2>>), Ins("SetFalse", <<3>>),
                  Ins("RunCode", <<2, 0, 1, 3, 2>>), Ins("Return", <<2>>)>>,
                <<2>>, <<>>, << <<id[2]>> >>)
      [] id[1] = "file_none" ->
           Code(<<Ins("SetTrue", <<0>>), Ins("RunFileFast", <<0, 0>>),
                  Ins("Return", <<0>>)>>,
                <<>>, <<"c">>, <<>>)
      [] id[1] = "shadow" ->
           Code(<<Ins("SetObject", <<0>>),
                  Ins("DefLiteralMethod", <<0, 0, 0>>),
                  Ins("SetObject", <<1, 0>>),
                  Ins("Send", <<2, 1, 0, 0, 0>>),
                  Ins("DefLiteralMethod", <<1, 0, 1>>),
                  Ins("Send", <<3, 1, 0, 0, 0>>),
                  Ins("SetString", <<4, 0>>),
                  Ins("SetCompiledCode", <<5, 2>>),
                  Ins("DefMethod", <<1, 4, 5>>),
                  Ins("Send", <<6, 1, 0, 0, 0>>),
                  Ins("Send", <<7, 0, 0, 0, 0>>),
                  Ins("SetObject", <<8, 1>>),
                  Ins("Send", <<9, 8, 0, 0, 0>>),
                  Ins("Return", <<9>>)>>,
                <<>>, <<"m">>, << <<"m7">>, <<"m8">>, <<"m9">> >>)
      [] id[1] = "nest_fail" ->
           Code(<<Ins("SetTrue", <<0>>), Ins("RunFileFast", <<0, 0>>),
                  Ins("SetFalse", <<0>>), Ins("Return", <<0>>)>>,
                <<>>, <<"d">>, <<>>)
      [] id[1] = "arith" ->
           \* the arithmetic instruction id[2] on the operands id[3], id[4]
           Code(<<Ins("SetInteger", <<0, 0>>), Ins("SetInteger", <<1, 1>>),
                  Ins(id[2], <<2, 0, 1>>), Ins("Return", <<2>>)>>,
                <<operand(id[3]), operand(id[4])>>, <<>>, <<>>)
      [] id[1] = "arith_true" ->
           \* an arithmetic instruction on an operand that is no integer
           Code(<<Ins("SetInteger", <<0, 0>>), Ins("SetTrue", <<1>>),
                  Ins("IntegerAdd", <<2, 0, 1>>), Ins("Return", <<2>>)>>,
                <<1>>, <<>>, <<>>)
      [] id[1] = "loc_root" ->
           \* RunCode of "loc_mid" with the arguments true and false
           Code(<<Ins("SetCompiledCode", <<0, 0>>), Ins("SetInteger", <<1, 0>>),
                  Ins("SetTrue", <<2>>), Ins("SetFalse", <<3>>),
                  Ins("RunCode", <<4, 0, 1, 2, 3>>), Ins("Return", <<4>>)>>,
                <<2>>, <<>>, << <<"loc_mid", id[2]>> >>)
      [] id[1] = "loc_mid" ->
           \* binds its local 1 anew, then RunCode of the code id[2] with
           \* one argument, an integer object
           Code(<<Ins("SetCompiledCode", <<0, 0>>), Ins("SetInteger", <<1, 0>>),
                  Ins("SetString", <<2, 0>>), Ins("SetLocal", <<1, 2>>),
                  Ins("RunCode", <<3, 0, 1, 1>>), Ins("Return", <<3>>)>>,
                <<1>>, <<"x">>, << <<id[2]>> >>)
      [] id[1] = "loc_get" ->
           Code(<<Ins("GetLocal", <<0, 0>>), Ins("Return", <<0>>)>>,
                <<>>, <<>>, <<>>)
      [] id[1] = "loc_get_set" ->
           \* as "loc_get", with register 0 set before
           Code(<<Ins("SetTrue", <<0>>), Ins("GetLocal", <<1, 0>>),
                  Ins("Return", <<1>>)>>,
                <<>>, <<>>, <<>>)
      [] id[1] = "seti" ->
           \* one SetInteger: without arguments, without the literal index,
           \* with an index the pool does not hold, with valid arguments
           Code(<<Ins("SetInteger",
                      CASE id[2] = "none" -> <<>>
                        [] id[2] = "slot" -> <<1>>
                        [] id[2] = "undef" -> <<1, 1>>
                        [] id[2] = "valid" -> <<1, 0>>)>>,
                <<10>>, <<>>, <<>>)
      [] id[1] = "seti_ret" ->
           Code(<<Ins("SetInteger", <<1, 0>>), Ins("Return", <<1>>)>>,
                <<10>>, <<>>, <<>>)
      [] id[1] = "bytes" ->
           \* the string id[2] to bytes and back, and the two compared
           Code(<<Ins("SetString", <<1, 0>>), Ins("StringToBytes", <<2, 1>>),
                  Ins("StringFromBytes", <<3, 2>>),
                  Ins("StringEquals", <<4, 1, 3>>), Ins("Return", <<4>>)>>,
                <<>>, <<id[2]>>, <<>>)
      [] id[1] = "remove" ->
           \* ArrayRemove at the index id[2] of the three bytes of "abc"
           Code(<<Ins("SetString", <<0, 0>>), Ins("StringToBytes", <<1, 0>>),
                  Ins("ArrayRemove", <<2, 1, operand(id[2])>>),
                  Ins("ArrayAt", <<3, 1, 0>>), Ins("Return", <<2>>)>>,
                <<>>, <<"abc">>, <<>>)
      [] id[1] = "out" ->
           \* StdoutWrite of a string, of an integer, of an unset register
           Code(<<Ins("SetTrue", <<1>>),
                  CASE id[2] = "string" -> Ins("SetString", <<0, 0>>)
                    [] id[2] = "integer" -> Ins("SetInteger", <<0, 0>>)
                    [] id[2] = "unset" -> Ins("SetTrue", <<2>>),
                  Ins("StdoutWrite", <<1, 0>>), Ins("SetFalse", <<2>>),
                  Ins("Return", <<1>>)>>,
                <<7>>, <<"abc">>, <<>>)
      [] id[1] = "locks" ->
           \* DefMethod on the top-level object, named by the string
           \* prototype, beside a worker that does the reverse
           Code(<<Ins("StartThread", <<0, 0>>), Ins("GetToplevel", <<1>>),
                  Ins("GetStringPrototype", <<2>>),
                  Ins("SetCompiledCode", <<3, 1>>),
                  Ins("DefMethod", <<1, 2, 3>>), Ins("Return", <<1>>)>>,
                <<>>, <<>>, << <<"lock_worker">>, <<"m7">> >>)
      [] id[1] = "lock_worker" ->
           Code(<<Ins("GetToplevel", <<1>>), Ins("GetStringPrototype", <<2>>),
                  Ins("SetCompiledCode", <<3, 0>>),
                  Ins("DefMethod", <<2, 1, 3>>), Ins("Return", <<1>>)>>,
                <<>>, <<>>, << <<"m7">> >>)
      [] id[1] = "cond" ->
           \* a conditional branch of type id[2] on a register that is
           \* unset or holds the object id[3] names
           LET setup == CASE id[3] = "true" -> <<Ins("SetTrue", <<0>>)>>
                          [] id[3] = "false" -> <<Ins("SetFalse", <<0>>)>>
                          [] id[3] = "zero" -> <<Ins("SetInteger", <<0, 0>>)>>
                          [] id[3] = "five" -> <<Ins("SetInteger", <<0, 1>>)>>
                          [] id[3] = "empty" -> <<Ins("SetString", <<0, 0>>)>>
                          [] id[3] = "text" -> <<Ins("SetString", <<0, 1>>)>>
                          [] id[3] = "object" -> <<Ins("SetObject", <<0>>)>>
                          [] id[3] = "unset" -> <<>>
           IN  Code(setup \o <<Ins(id[2], <<Len(setup) + 1, 0>>),
                               Ins("SetTrue", <<1>>), Ins("Return", <<1>>)>>,
                    <<0, 5>>, <<"", "a">>, <<>>)
      [] id[1] = "goto" ->
           \* a Goto to index id[2]: back, to itself, on, past the end
           Code(<<Ins("SetTrue", <<0>>), Ins("Goto", <<operand(id[2])>>),
                  Ins("Return", <<0>>)>>,
                <<>>, <<>>, <<>>)
      [] id[1] = "chain" ->
           \* a chain of three objects, the second made in the slot that
           \* holds its prototype
           Code(<<Ins("SetObject", <<0>>), Ins("SetObject", <<0, 0>>),
                  Ins("SetObject", <<1, 0>>), Ins("Return", <<1>>)>>,
                <<>>, <<>>, <<>>)
      [] id[1] = "defm_self" ->
           \* DefMethod whose receiver and name are one object
           Code(<<Ins("SetString", <<0, 0>>), Ins("SetCompiledCode", <<2, 0>>),
                  Ins("DefMethod", <<0, 0, 2>>), Ins("Return", <<0>>)>>,
                <<>>, <<"m">>, << <<"m7">> >>)
      [] id[1] = "defm" ->
           Code(<<Ins("SetObject", <<0>>), Ins("SetString", <<1, 0>>),
                  Ins("SetCompiledCode", <<2, 0>>),
                  Ins("DefMethod", <<0, 1, 2>>), Ins("Return", <<0>>)>>,
                <<>>, <<"m">>, << <<"m7">> >>)
      [] id[1] = "read" ->
           Code(<<Ins("SetString", <<0, 0>>), Ins("SetString", <<1, 1>>),
                  Ins("FileOpen", <<2, 0, 1>>), Ins("FileRead", <<3, 2>>),
                  Ins("Return", <<3>>)>>,
                <<>>, <<"/f", "r">>, <<>>)
      [] id[1] = "open" ->
           \* FileOpen with the mode string id[2]
           Code(<<Ins("SetString", <<0, 0>>), Ins("SetString", <<1, 1>>),
                  Ins("FileOpen", <<2, 0, 1>>), Ins("SetTrue", <<3>>),
                  Ins("Return", <<2>>)>>,
                <<>>, <<"/f", id[2]>>, <<>>)

\* Codes with conditional branches, all of them forward.
BranchCodes ==
    {<<"skip">>, <<"far">>, <<"near">>, <<"fall">>, <<"unset">>}
    \cup {<<"cond", type, v>> :
              type \in {"GotoIfTrue", "GotoIfFalse"},
              v \in {"true", "false", "zero", "five", "empty", "text",
                     "object", "unset"}}

\* Codes that start no thread: branches, Return, methods and Send, nested
\* invocation, FileOpen.
SequentialCodes ==
    BranchCodes
    \cup {<<"ret_unset">>, <<"ret_moment">>, <<"ret_last">>, <<"noret">>,
          <<"jump">>, <<"empty">>}
    \cup {<<"send", m>> : m \in {"m7", "mnone", "mretunset", "mpriv",
                                 "m1arg", "mfail"}}
    \cup {<<"send_undef">>, <<"send_priv_ok">>}
    \cup {<<"send_args", m>> : m \in {"m2arg", "m1arg", "mnone"}}
    \cup {<<"run_args", m>> : m \in {"m7", "mnone", "mretunset", "mfail"}}
    \cup {<<"file_none">>, <<"shadow">>, <<"nest_fail">>}
    \cup {<<"open", mode>> : mode \in {"r", "w+", "zz", ""}}
    \cup {<<"arith", type, x, y>> :
              type \in {"IntegerAdd", "IntegerSub", "IntegerMul", "IntegerDiv",
                        "IntegerMod"},
              x \in Operands, y \in Operands}
    \cup {<<"arith_true">>, <<"read">>, <<"seti_ret">>}
    \cup {<<"bytes", s>> : s \in {"", "abc", "aU+E9", "U+20AC"}}
    \cup {<<"remove", i>> : i \in {"0", "1", "2"}}
    \cup {<<"out", v>> : v \in {"string", "integer", "unset"}}
    \cup {<<"defm">>, <<"chain">>, <<"send_short">>, <<"run_short">>}
    \cup {<<"goto", target>> : target \in {"0", "1", "2", "3"}}
    \cup {<<"seti", v>> : v \in {"none", "slot", "undef", "valid"}}
    \cup {<<"loc_root", inner>> : inner \in {"loc_get", "loc_get_set"}}

\* The instruction types whose handlers call run_code or start a thread.
InvokingTypes == {"Send", "RunCode", "RunFileFast", "StartThread"}

\* The sequential codes with no nested invocation and no Goto whose target
\* is at or before its own index.
StraightCodes ==
    {c \in SequentialCodes :
        \A i \in 1..Len(CompiledCode(c).instructions) :
            LET instruction == CompiledCode(c).instructions[i]
            IN  /\ instruction.instruction_type \notin InvokingTypes
                /\ instruction.instruction_type = "Goto"
                      => instruction.arguments[1] > i - 1}

\* The code start() may be given: "root" with every pair of worker codes,
\* more codes that start threads, a DefMethod on one object twice, a branch
\* to an earlier index, and the sequential ones.
RootCodes ==
    {<<"root", WorkerCodes[i], WorkerCodes[j]>> :
        i \in 1..Len(WorkerCodes), j \in 1..Len(WorkerCodes)}
    \cup {<<"root_nest">>, <<"root_fail">>, <<"root_bad">>, <<"locks">>,
          <<"defm_self">>, <<"back">>, <<"root_panic">>}
    \cup SequentialCodes

\* bytecode_parser::parse_file: the code a file holds, or <<>> when the
\* file does not parse.
parse_file(path) ==
    CASE path = "a" -> <<"ret7">>
      [] path = "b" -> <<"file">>
      [] path = "c" -> <<"mnone">>
      [] path = "d" -> <<"d_code">>
      [] OTHER -> <<>>

\* The paths RunFileFast names.
Paths == {"a", "b", "bad", "c", "d"}

----------------------------------------------------------------------------
(* Helpers for frames and registers. *)

\* A call frame with the state of the `run` that executes on it; `ran` is
\* history: the indices of the instructions this run has dispatched.  `held`
\* is the object locks whose guards the running handler holds, and `want`
\* the locks it has still to take, in the order it takes them.
Frame(code) ==
    [code |-> code, registers |-> <<>>, locals |-> <<>>,
     index |-> 0, skip_until |-> NoTarget, retval |-> NoObject,
     phase |-> "entry", slot |-> 0, callee |-> <<>>, path |-> "",
     child |-> 0, ran |-> {}, held |-> {}, want |-> <<>>]

Top(t) == frames[t][Len(frames[t])]

SetTop(t, f) == [frames EXCEPT ![t][Len(frames[t])] = f]

\* Thread::set_register
set_register(regs, slot, obj) ==
    [s \in (DOMAIN regs) \cup {slot} |-> IF s = slot THEN obj ELSE regs[s]]

\* Thread::get_register_option
get_register_option(regs, slot) ==
    IF slot \in DOMAIN regs THEN regs[slot] ELSE NoObject

\* Thread::get_register is Ok: the register holds an object.
has_register(regs, slot) == get_register_option(regs, slot) # NoObject

\* Instruction::arg(i) is Ok (arguments are counted from 0).
has_arg(instruction, i) == i < Len(instruction.arguments)

arg(instruction, i) == instruction.arguments[i + 1]

----------------------------------------------------------------------------
(* Instruction handlers that run in one step.  A handler yields what the   *)
(* `run!` macro sees: an error message ("" for Ok), the thread's registers *)
(* afterwards, the objects it allocated, and the value of its Ok.          *)

Outcome(err, regs, objs, value, target) ==
    [err |-> err, registers |-> regs, allocated |-> objs,
     value |-> value, target |-> target]

Failed(f, message) == Outcome(message, f.registers, <<>>, NoObject, NoTarget)

\* ObjectValue: the payload of an object, by kind.
Value(tag, int, str, code) ==
    [tag |-> tag, int |-> int, str |-> str, code |-> code, elements |-> <<>>]

\* object_value::integer
integer(i) == Value("Integer", i, "", <<>>)

\* object_value::string
string(s) == Value("String", 0, s, <<>>)

\* object_value::compiled_code
compiled_code(id) == Value("CompiledCode", 0, "", id)

\* object_value::none
none == Value("None", 0, "", <<>>)

\* object_value::error, of an error code
object_value_error(code) == Value("Error", 0, code, <<>>)

\* object_value::file: the file opened at `path` with the options of `mode`
file(path, mode) == Value("File", 0, path, <<mode>>)

\* object_value::array, of the handles of its elements
array(elements) == [Value("Array", 0, "", <<>>) EXCEPT !.elements = elements]

\* An object as the memory manager allocates it: no methods yet.
Object(value, prototype) ==
    [value |-> value, prototype |-> prototype, methods |-> {}]

\* Object::truthy of the object a handle names (a spec-level reading):
\* the false singleton, the integer zero, the empty string, the empty array
\* and error objects are not truthy.
truthy(obj) ==
    /\ obj # false_object
    /\ obj.space = "heap"
       => LET value == heap[obj.owner][obj.n].value
          IN  /\ ~(value.tag = "Integer" /\ value.int = 0)
              /\ ~(value.tag = "String" /\ value.str = "")
              /\ ~(value.tag = "Array" /\ value.elements = <<>>)
              /\ value.tag # "Error"

\* ins_set_integer that takes literal 0 when the index argument is missing.
ins_set_integer_default_literal(t, f, instruction) ==
    IF ~has_arg(instruction, 0) THEN Failed(f, "argument 0 missing")
    ELSE LET slot  == arg(instruction, 0)
             index == IF has_arg(instruction, 1) THEN arg(instruction, 1) ELSE 0
             pool  == CompiledCode(f.code).integer_literals
         IN  IF index >= Len(pool) THEN Failed(f, "undefined integer literal")
             ELSE Outcome("",
                          set_register(f.registers, slot,
                                       Obj(t, Len(heap[t]) + 1)),
                          <<Object(integer(pool[index + 1]),
                                   integer_prototype)>>,
                          NoObject, NoTarget)

ins_set_integer(t, f, instruction) ==
    IF ~has_arg(instruction, 0) THEN Failed(f, "argument 0 missing")
    ELSE IF ~has_arg(instruction, 1) THEN Failed(f, "argument 1 missing")
    ELSE LET slot  == arg(instruction, 0)
             index == arg(instruction, 1)
             pool  == CompiledCode(f.code).integer_literals
         IN  IF index >= Len(pool) THEN Failed(f, "undefined integer literal")
             ELSE Outcome("",
                          set_register(f.registers, slot,
                                       Obj(t, Len(heap[t]) + 1)),
                          <<Object(integer(pool[index + 1]),
                                   integer_prototype)>>,
                          NoObject, NoTarget)

ins_set_true(t, f, instruction) ==
    IF ~has_arg(instruction, 0) THEN Failed(f, "argument 0 missing")
    ELSE Outcome("", set_register(f.registers, arg(instruction, 0), true_object),
                 <<>>, NoObject, NoTarget)

ins_set_false(t, f, instruction) ==
    IF ~has_arg(instruction, 0) THEN Failed(f, "argument 0 missing")
    ELSE Outcome("", set_register(f.registers, arg(instruction, 0), false_object),
                 <<>>, NoObject, NoTarget)

\* ins_return that keeps a value recorded earlier when the register it
\* names is not set.
ins_return_first_wins(t, f, instruction) ==
    IF ~has_arg(instruction, 0) THEN Failed(f, "argument 0 missing")
    ELSE Outcome("", f.registers, <<>>,
                 IF has_register(f.registers, arg(instruction, 0))
                 THEN f.registers[arg(instruction, 0)] ELSE f.retval,
                 NoTarget)

ins_return(t, f, instruction) ==
    IF ~has_arg(instruction, 0) THEN Failed(f, "argument 0 missing")
    ELSE Outcome("", f.registers, <<>>,
                 get_register_option(f.registers, arg(instruction, 0)),
                 NoTarget)

\* ins_goto_if_false that reports no branch for an unset register.
ins_goto_if_false_set_only(t, f, instruction) ==
    IF ~has_arg(instruction, 0) THEN Failed(f, "argument 0 missing")
    ELSE IF ~has_arg(instruction, 1) THEN Failed(f, "argument 1 missing")
    ELSE LET go_to == arg(instruction, 0)
             value == get_register_option(f.registers, arg(instruction, 1))
         IN  Outcome("", f.registers, <<>>, NoObject,
                     IF value # NoObject /\ ~truthy(value)
                     THEN go_to ELSE NoTarget)

ins_goto_if_false(t, f, instruction) ==
    IF ~has_arg(instruction, 0) THEN Failed(f, "argument 0 missing")
    ELSE IF ~has_arg(instruction, 1) THEN Failed(f, "argument 1 missing")
    ELSE LET go_to == arg(instruction, 0)
             value == get_register_option(f.registers, arg(instruction, 1))
         IN  Outcome("", f.registers, <<>>, NoObject,
                     IF value # NoObject /\ truthy(value)
                     THEN NoTarget ELSE go_to)

ins_goto_if_true(t, f, instruction) ==
    IF ~has_arg(instruction, 0) THEN Failed(f, "argument 0 missing")
    ELSE IF ~has_arg(instruction, 1) THEN Failed(f, "argument 1 missing")
    ELSE LET go_to == arg(instruction, 0)
             value == get_register_option(f.registers, arg(instruction, 1))
         IN  Outcome("", f.registers, <<>>, NoObject,
                     IF value # NoObject /\ truthy(value)
                     THEN go_to ELSE NoTarget)

\* ins_goto that answers no target before the instruction after the Goto.
ins_goto_forward_only(t, f, instruction) ==
    IF ~has_arg(instruction, 0) THEN Failed(f, "argument 0 missing")
    ELSE Outcome("", f.registers, <<>>, NoObject,
                 IF arg(instruction, 0) >= f.index
                 THEN arg(instruction, 0) ELSE f.index)

ins_goto(t, f, instruction) ==
    IF ~has_arg(instruction, 0) THEN Failed(f, "argument 0 missing")
    ELSE Outcome("", f.registers, <<>>, NoObject, arg(instruction, 0))

ins_set_string(t, f, instruction) ==
    IF ~has_arg(instruction, 0) THEN Failed(f, "argument 0 missing")
    ELSE IF ~has_arg(instruction, 1) THEN Failed(f, "argument 1 missing")
    ELSE LET slot  == arg(instruction, 0)
             index == arg(instruction, 1)
             pool  == CompiledCode(f.code).string_literals
         IN  IF index >= Len(pool) THEN Failed(f, "undefined string literal")
             ELSE Outcome("",
                          set_register(f.registers, slot,
                                       Obj(t, Len(heap[t]) + 1)),
                          <<Object(string(pool[index + 1]), string_prototype)>>,
                          NoObject, NoTarget)

\* ins_set_object that reads the prototype register after it has bound the
\* new object to its slot.
ins_set_object_bound_first(t, f, instruction) ==
    IF ~has_arg(instruction, 0) THEN Failed(f, "argument 0 missing")
    ELSE IF has_arg(instruction, 1)
            /\ ~has_register(f.registers, arg(instruction, 1))
    THEN Failed(f, "undefined register")
    ELSE LET registers == set_register(f.registers, arg(instruction, 0),
                                       Obj(t, Len(heap[t]) + 1))
         IN  Outcome("", registers,
                     <<Object(none,
                              IF has_arg(instruction, 1)
                              THEN registers[arg(instruction, 1)]
                              ELSE NoObject)>>,
                     NoObject, NoTarget)

\* The prototype register is optional; when named it has to be set.
ins_set_object(t, f, instruction) ==
    IF ~has_arg(instruction, 0) THEN Failed(f, "argument 0 missing")
    ELSE IF has_arg(instruction, 1)
            /\ ~has_register(f.registers, arg(instruction, 1))
    THEN Failed(f, "undefined register")
    ELSE Outcome("",
                 set_register(f.registers, arg(instruction, 0),
                              Obj(t, Len(heap[t]) + 1)),
                 <<Object(none,
                          IF has_arg(instruction, 1)
                          THEN f.registers[arg(instruction, 1)]
                          ELSE NoObject)>>,
                 NoObject, NoTarget)

ins_set_compiled_code(t, f, instruction) ==
    IF ~has_arg(instruction, 0) THEN Failed(f, "argument 0 missing")
    ELSE IF ~has_arg(instruction, 1) THEN Failed(f, "argument 1 missing")
    ELSE LET slot     == arg(instruction, 0)
             cc_index == arg(instruction, 1)
             pool     == CompiledCode(f.code).code_objects
         IN  IF cc_index >= Len(pool) THEN Failed(f, "undefined code object")
             ELSE Outcome("",
                          set_register(f.registers, slot,
                                       Obj(t, Len(heap[t]) + 1)),
                          <<Object(compiled_code(pool[cc_index + 1]),
                                   compiled_code_prototype)>>,
                          NoObject, NoTarget)

\* The handlers above, by instruction type.
SimpleTypes ==
    {"SetInteger", "SetTrue", "SetFalse", "Return", "GotoIfFalse",
     "GotoIfTrue", "Goto", "SetString", "SetObject", "SetCompiledCode"}

Handle(t, f, instruction) ==
    CASE instruction.instruction_type = "SetInteger" ->
           ins_set_integer(t, f, instruction)
      [] instruction.instruction_type = "SetTrue" ->
           ins_set_true(t, f, instruction)
      [] instruction.instruction_type = "SetFalse" ->
           ins_set_false(t, f, instruction)
      [] instruction.instruction_type = "Return" ->
           ins_return(t, f, instruction)
      [] instruction.instruction_type = "GotoIfFalse" ->
           ins_goto_if_false(t, f, instruction)
      [] instruction.instruction_type = "GotoIfTrue" ->
           ins_goto_if_true(t, f, instruction)
      [] instruction.instruction_type = "Goto" ->
           ins_goto(t, f, instruction)
      [] instruction.instruction_type = "SetString" ->
           ins_set_string(t, f, instruction)
      [] instruction.instruction_type = "SetObject" ->
           ins_set_object(t, f, instruction)
      [] instruction.instruction_type = "SetCompiledCode" ->
           ins_set_compiled_code(t, f, instruction)

----------------------------------------------------------------------------
(* The VM facade and the dispatch loop. *)

\* Thread::from_code: a thread that has not been asked to stop and holds no
\* value; main_thread is set by set_main; the thread object is pinned while
\* its OS thread lives.
Thread_from_code(handle, main_thread) ==
    [allocated |-> TRUE, should_stop |-> FALSE, main_thread |-> main_thread,
     value |-> NoObject, pinned |-> TRUE, join |-> handle]

\* The thread value before allocate_thread has made it.
NoThread ==
    [allocated |-> FALSE, should_stop |-> FALSE, main_thread |-> FALSE,
     value |-> NoObject, pinned |-> FALSE, join |-> FALSE]

NoResult == [status |-> "None", value |-> NoObject, message |-> ""]

Ok(obj) == [status |-> "Ok", value |-> obj, message |-> ""]

Err(message) == [status |-> "Err", value |-> NoObject, message |-> message]

Init ==
    /\ threads = {}
    /\ exit_status = "Ok"
    /\ executed_files = {}
    /\ heap = [t \in ThreadIds |-> <<>>]
    /\ thread = [t \in ThreadIds |-> NoThread]
    /\ frames = [t \in ThreadIds |-> <<>>]
    /\ pc = [t \in ThreadIds |-> IF t = Main THEN "start" ELSE "free"]
    /\ result = [t \in ThreadIds |-> NoResult]
    /\ chan = [t \in ThreadIds |-> FALSE]
    /\ parsed = [p \in Paths |-> 0]
    /\ stderr = [t \in ThreadIds |-> <<>>]
    /\ returned = "None"
    /\ stdout = <<>>

\* allocate_thread: makes the thread object of OS thread w, with its root
\* call frame, and adds it to the thread list.  fr is `frames` with the
\* caller's own changes.
allocate_thread(w, code, handle, main_thread, fr) ==
    /\ thread' = [thread EXCEPT ![w] = Thread_from_code(handle, main_thread)]
    /\ frames' = [fr EXCEPT ![w] = <<Frame(code)>>]
    /\ threads' = threads \cup {w}

\* start, up to its call of run_thread.
start(code) ==
    /\ pc[Main] = "start"
    /\ allocate_thread(Main, code, FALSE, TRUE, frames)
    /\ pc' = [pc EXCEPT ![Main] = "run"]
    /\ UNCHANGED <<exit_status, executed_files, heap, result, chan, parsed,
                   stderr, stdout, returned>>

\* The `?` of a handler error: it leaves every enclosing run and run_code
\* and becomes run_thread's `result`.
Raise(t, message) ==
    /\ result' = [result EXCEPT ![t] = Err(message)]
    /\ pc' = [pc EXCEPT ![t] = "remove"]

\* run_enter without the test of should_stop.
run_enter_unchecked(t) ==
    /\ pc[t] = "run"
    /\ Len(frames[t]) > 0
    /\ Top(t).phase = "entry"
    /\ frames' = SetTop(t, [Top(t) EXCEPT !.phase = "loop"])
    /\ UNCHANGED <<threads, exit_status, executed_files, heap, thread, pc,
                   result, chan, parsed, stderr, stdout, returned>>

\* run, on entry: the only test of should_stop.
run_enter(t) ==
    /\ pc[t] = "run"
    /\ Len(frames[t]) > 0
    /\ Top(t).phase = "entry"
    /\ frames' = SetTop(t, [Top(t) EXCEPT
                    !.phase = IF thread[t].should_stop
                              THEN "returned" ELSE "loop"])
    /\ UNCHANGED <<threads, exit_status, executed_files, heap, thread, pc,
                   result, chan, parsed, stderr, stdout, returned>>

\* Simple in which the loop goes on after a handler's error.
Simple_error_skipped(t, g, instruction) ==
    LET o == Handle(t, g, instruction)
        type == instruction.instruction_type
    IN  /\ frames' = SetTop(t, [g EXCEPT
               !.registers = o.registers,
               !.retval = IF type = "Return" /\ o.err = "" THEN o.value ELSE @,
               !.skip_until = IF type \in {"GotoIfFalse", "GotoIfTrue"}
                                 /\ o.err = ""
                              THEN o.target ELSE @,
               !.index = IF type = "Goto" /\ o.err = "" THEN o.target ELSE @])
        /\ heap' = [heap EXCEPT ![t] = @ \o o.allocated]
        /\ UNCHANGED <<threads, exit_status, executed_files, thread, pc,
                       result, chan, parsed, stderr, stdout, returned>>

\* Simple in which a reported branch target is assigned to the index.
Simple_branch_assigns_index(t, g, instruction) ==
    LET o == Handle(t, g, instruction)
        type == instruction.instruction_type
    IN  IF o.err # ""
        THEN /\ Raise(t, o.err)
             /\ frames' = SetTop(t, [g EXCEPT !.phase = "failed"])
             /\ UNCHANGED <<threads, exit_status, executed_files, heap,
                            thread, chan, parsed, stderr, stdout, returned>>
        ELSE /\ frames' = SetTop(t, [g EXCEPT
                    !.registers = o.registers,
                    !.retval = IF type = "Return" THEN o.value ELSE @,
                    !.index = IF type = "Goto" \/ o.target # NoTarget
                              THEN o.target ELSE @])
             /\ heap' = [heap EXCEPT ![t] = @ \o o.allocated]
             /\ UNCHANGED <<threads, exit_status, executed_files, thread, pc,
                            result, chan, parsed, stderr, stdout, returned>>

\* A handler of SimpleTypes, and what the loop does with its value.
Simple(t, g, instruction) ==
    LET o == Handle(t, g, instruction)
        type == instruction.instruction_type
    IN  IF o.err # ""
        THEN /\ Raise(t, o.err)
             /\ frames' = SetTop(t, [g EXCEPT !.phase = "failed"])
             /\ UNCHANGED <<threads, exit_status, executed_files, heap,
                            thread, chan, parsed, stderr, stdout, returned>>
        ELSE /\ frames' = SetTop(t, [g EXCEPT
                    !.registers = o.registers,
                    !.retval = IF type = "Return" THEN o.value ELSE @,
                    !.skip_until = IF type \in {"GotoIfFalse", "GotoIfTrue"}
                                   THEN o.target ELSE @,
                    !.index = IF type = "Goto" THEN o.target ELSE @])
             /\ heap' = [heap EXCEPT ![t] = @ \o o.allocated]
             /\ UNCHANGED <<threads, exit_status, executed_files, thread, pc,
                            result, chan, parsed, stderr, stdout, returned>>

\* The least worker that has not been spawned (0 when every one has).
FreeWorker ==
    IF \E w \in Workers : pc[w] = "free"
    THEN CHOOSE w \in Workers :
            pc[w] = "free" /\ \A v \in Workers : pc[v] = "free" => w <= v
    ELSE 0

\* ins_start_thread and start_thread, up to thread::spawn: the worker
\* exists and waits on the channel.
ins_start_thread(t, g, instruction) ==
    IF ~has_arg(instruction, 0) \/ ~has_arg(instruction, 1)
       \/ (has_arg(instruction, 1) /\
           arg(instruction, 1) >= Len(CompiledCode(g.code).code_objects))
    THEN /\ Raise(t, "StartThread: missing argument or code object")
         /\ frames' = SetTop(t, [g EXCEPT !.phase = "failed"])
         /\ UNCHANGED <<threads, exit_status, executed_files, heap, thread,
                        chan, parsed, stderr, stdout, returned>>
    ELSE /\ FreeWorker # 0
         /\ pc' = [pc EXCEPT ![FreeWorker] = "recv"]
         /\ frames' = SetTop(t, [g EXCEPT
                !.phase = "spawned",
                !.slot = arg(instruction, 0),
                !.callee = CompiledCode(g.code).code_objects[
                               arg(instruction, 1) + 1],
                !.child = FreeWorker])
         /\ UNCHANGED <<threads, exit_status, executed_files, heap, thread,
                        result, chan, parsed, stderr, stdout, returned>>

\* A membership test that never finds the path.
already_executed_never(path) == FALSE

\* already_executed that holds of the paths that parsed only.
already_executed_parsed(path) ==
    path \in executed_files /\ parse_file(path) # <<>>

\* The membership test of ins_run_file_fast, under the set's write lock.
already_executed(path) == path \in executed_files

\* ins_run_file_fast, up to the release of the write lock on executed_files.
ins_run_file_fast(t, g, instruction) ==
    IF ~has_arg(instruction, 0) \/ ~has_arg(instruction, 1)
       \/ (has_arg(instruction, 1) /\
           arg(instruction, 1) >= Len(CompiledCode(g.code).string_literals))
    THEN /\ Raise(t, "RunFileFast: missing argument or string literal")
         /\ frames' = SetTop(t, [g EXCEPT !.phase = "failed"])
         /\ UNCHANGED <<threads, exit_status, executed_files, heap, thread,
                        chan, parsed, stderr, stdout, returned>>
    ELSE LET path == CompiledCode(g.code).string_literals[
                         arg(instruction, 1) + 1]
         IN  IF already_executed(path)
             THEN /\ frames' = SetTop(t, g)
                  /\ UNCHANGED <<threads, exit_status, executed_files, heap,
                                 thread, pc, result, chan, parsed, stderr, stdout,
                                 returned>>
             ELSE /\ executed_files' = executed_files \cup {path}
                  /\ frames' = SetTop(t, [g EXCEPT
                         !.phase = "parse",
                         !.slot = arg(instruction, 0),
                         !.path = path])
                  /\ UNCHANGED <<threads, exit_status, heap, thread, pc,
                                 result, chan, parsed, stderr, stdout, returned>>

\* run_code, up to its call of run: a new call frame with the arguments as
\* its locals, above the caller's frame.
run_code(t, fr, code, args) ==
    [fr EXCEPT ![t] = Append(@, [Frame(code) EXCEPT !.locals = args])]

\* The object a handle names; the singletons and thread objects hold no
\* methods in the runs explored.
Deref(h) ==
    IF h.space = "heap" THEN heap[h.owner][h.n] ELSE Object(none, NoObject)

\* Object::add_method: the name maps to the new method object from now on.
add_method(methods, name, method) ==
    {m \in methods : m.name # name} \cup {[name |-> name, method |-> method]}

\* Object::lookup_method: the object's own methods first, then those of its
\* prototype, and so on up the chain; NoObject when no object of the chain
\* has the name.
RECURSIVE lookup_method(_, _)
lookup_method(h, name) ==
    LET own == {m \in Deref(h).methods : m.name = name}
    IN  IF own # {} THEN (CHOOSE m \in own : TRUE).method
        ELSE IF Deref(h).prototype = NoObject THEN NoObject
        ELSE lookup_method(Deref(h).prototype, name)

\* The instruction_object! macro is Ok: argument i is there and the
\* register it names holds an object.
has_object(f, instruction, i) ==
    has_arg(instruction, i) /\ has_register(f.registers, arg(instruction, i))

\* The first of the `amount` arguments from `offset` on that
\* collect_arguments cannot take (offset + amount when it takes them all).
first_bad_argument(f, instruction, offset, amount) ==
    LET bad == {i \in offset..(offset + amount - 1) :
                   ~has_object(f, instruction, i)}
    IN  IF bad = {} THEN offset + amount
        ELSE CHOOSE i \in bad : \A j \in bad : i <= j

\* collect_arguments: the contents of the registers named by the arguments
\* offset .. offset + amount - 1, in order.  An argument the instruction
\* does not have is an index out of bounds (a panic); a register that is
\* not set is an error.
collect_arguments(f, instruction, offset, amount) ==
    LET i == first_bad_argument(f, instruction, offset, amount)
    IN  IF i = offset + amount
        THEN [err |-> "",
              args |-> [k \in 1..amount |->
                           f.registers[arg(instruction, offset + k - 1)]]]
        ELSE IF ~has_arg(instruction, i)
        THEN [err |-> "panic", args |-> <<>>]
        ELSE [err |-> "undefined register", args |-> <<>>]

\* A handler returns Err: the thread's run ends on frame g.
Fail(t, g, message) ==
    /\ Raise(t, message)
    /\ frames' = SetTop(t, [g EXCEPT !.phase = "failed"])
    /\ UNCHANGED <<threads, exit_status, executed_files, heap, thread,
                   chan, parsed, stderr, stdout, returned>>

\* A handler panics: the OS thread unwinds out of run_thread.
Panic(t, g) ==
    /\ pc' = [pc EXCEPT ![t] = "panicked"]
    /\ frames' = SetTop(t, [g EXCEPT !.phase = "failed"])
    /\ UNCHANGED <<threads, exit_status, executed_files, heap, thread,
                   result, chan, parsed, stderr, stdout, returned>>

\* A handler that called run_code: the callee's frame is pushed with the
\* arguments as its locals, and the caller waits for its run to return.
Invoke(t, g, slot, code, args) ==
    /\ frames' = run_code(t, SetTop(t, [g EXCEPT !.phase = "call",
                                                  !.slot = slot,
                                                  !.callee = code]),
                          code, args)
    /\ UNCHANGED <<threads, exit_status, executed_files, heap, thread, pc,
                   result, chan, parsed, stderr, stdout, returned>>

\* The method object that Send of this instruction resolves, on frame f.
send_method(f, instruction) ==
    lookup_method(f.registers[arg(instruction, 1)],
                  CompiledCode(f.code).string_literals[arg(instruction, 2) + 1])

\* send_error without the test of the number of arguments.
send_error_any_arity(f, instruction) ==
    IF ~has_arg(instruction, 0) THEN "argument 0 missing"
    ELSE IF ~has_arg(instruction, 1) THEN "argument 1 missing"
    ELSE IF ~has_object(f, instruction, 1) THEN "undefined register"
    ELSE IF ~has_arg(instruction, 2) THEN "argument 2 missing"
    ELSE IF ~has_arg(instruction, 3) THEN "argument 3 missing"
    ELSE IF ~has_arg(instruction, 4) THEN "argument 4 missing"
    ELSE IF arg(instruction, 2) >= Len(CompiledCode(f.code).string_literals)
    THEN "undefined string literal"
    ELSE LET name == CompiledCode(f.code).string_literals[
                         arg(instruction, 2) + 1]
             method == send_method(f, instruction)
         IN  IF method = NoObject THEN "undefined method " \o name
             ELSE IF Deref(method).value.tag # "CompiledCode"
             THEN "not a compiled code object"
             ELSE LET method_code == CompiledCode(Deref(method).value.code)
                      c == collect_arguments(f, instruction, 5,
                                             arg(instruction, 4))
                  IN  IF method_code.is_private /\ arg(instruction, 3) = 0
                      THEN "private method " \o name
                      ELSE IF c.err # "" THEN c.err
                      ELSE ""

\* ins_send, up to its call of run_code: the error it returns ("" when it
\* goes on to run_code, "panic" when collect_arguments panics).
send_error(f, instruction) ==
    IF ~has_arg(instruction, 0) THEN "argument 0 missing"
    ELSE IF ~has_arg(instruction, 1) THEN "argument 1 missing"
    ELSE IF ~has_object(f, instruction, 1) THEN "undefined register"
    ELSE IF ~has_arg(instruction, 2) THEN "argument 2 missing"
    ELSE IF ~has_arg(instruction, 3) THEN "argument 3 missing"
    ELSE IF ~has_arg(instruction, 4) THEN "argument 4 missing"
    ELSE IF arg(instruction, 2) >= Len(CompiledCode(f.code).string_literals)
    THEN "undefined string literal"
    ELSE LET name == CompiledCode(f.code).string_literals[
                         arg(instruction, 2) + 1]
             method == send_method(f, instruction)
         IN  IF method = NoObject THEN "undefined method " \o name
             ELSE IF Deref(method).value.tag # "CompiledCode"
             THEN "not a compiled code object"
             ELSE LET method_code == CompiledCode(Deref(method).value.code)
                      c == collect_arguments(f, instruction, 5,
                                             arg(instruction, 4))
                  IN  IF method_code.is_private /\ arg(instruction, 3) = 0
                      THEN "private method " \o name
                      ELSE IF c.err # "" THEN c.err
                      ELSE IF Len(c.args) # method_code.required_arguments
                      THEN name \o " requires "
                           \o ToString(method_code.required_arguments)
                           \o " arguments, " \o ToString(Len(c.args))
                           \o " given"
                      ELSE ""

\* send_arguments with the receiver after the collected arguments.
send_arguments_receiver_last(f, instruction) ==
    collect_arguments(f, instruction, 5, arg(instruction, 4)).args
    \o <<f.registers[arg(instruction, 1)]>>

\* The arguments ins_send hands to run_code: the receiver, then the
\* collected ones.
send_arguments(f, instruction) ==
    <<f.registers[arg(instruction, 1)]>>
    \o collect_arguments(f, instruction, 5, arg(instruction, 4)).args

ins_send(t, g, instruction) ==
    LET e == send_error(g, instruction)
    IN  IF e = "panic" THEN Panic(t, g)
        ELSE IF e # "" THEN Fail(t, g, e)
        ELSE Invoke(t, g, arg(instruction, 0),
                    Deref(send_method(g, instruction)).value.code,
                    send_arguments(g, instruction))

\* ins_run_code, up to its call of run_code: the error it returns.
run_code_error(f, instruction) ==
    IF ~has_arg(instruction, 0) THEN "argument 0 missing"
    ELSE IF ~has_arg(instruction, 1) THEN "argument 1 missing"
    ELSE IF ~has_object(f, instruction, 1) THEN "undefined register"
    ELSE IF ~has_arg(instruction, 2) THEN "argument 2 missing"
    ELSE IF ~has_object(f, instruction, 2) THEN "undefined register"
    ELSE IF Deref(f.registers[arg(instruction, 1)]).value.tag # "CompiledCode"
    THEN "not a compiled code object"
    ELSE IF Deref(f.registers[arg(instruction, 2)]).value.tag # "Integer"
    THEN "not an integer object"
    ELSE collect_arguments(f, instruction, 3,
             Deref(f.registers[arg(instruction, 2)]).value.int).err

\* The arguments ins_run_code hands to run_code: the collected ones alone.
run_code_arguments(f, instruction) ==
    collect_arguments(f, instruction, 3,
        Deref(f.registers[arg(instruction, 2)]).value.int).args

ins_run_code(t, g, instruction) ==
    LET e == run_code_error(g, instruction)
    IN  IF e = "panic" THEN Panic(t, g)
        ELSE IF e # "" THEN Fail(t, g, e)
        ELSE Invoke(t, g, arg(instruction, 0),
                    Deref(g.registers[arg(instruction, 1)]).value.code,
                    run_code_arguments(g, instruction))

\* define_method that allocates the method object and does not add it.
define_method_allocates_only(t, receiver, name, code) ==
    [heap EXCEPT ![t] = Append(@, Object(compiled_code(code),
                                         method_prototype))]

\* The heap after a method object of `code` was allocated by thread t and
\* added to the receiver under `name`.
define_method(t, receiver, name, code) ==
    LET with_method ==
            [heap EXCEPT ![t] = Append(@, Object(compiled_code(code),
                                                 method_prototype))]
    IN  IF receiver.space # "heap" THEN with_method
        ELSE [with_method EXCEPT ![receiver.owner][receiver.n].methods =
                 add_method(@, name, Obj(t, Len(heap[t]) + 1))]

\* A handler that only changed the heap.
Defined(t, g, new_heap) ==
    /\ heap' = new_heap
    /\ frames' = SetTop(t, g)
    /\ UNCHANGED <<threads, exit_status, executed_files, thread, pc, result,
                   chan, parsed, stderr, stdout, returned>>

\* ins_def_method, up to its first lock: the three operands are read from
\* their registers; the locks it takes are a write lock on the receiver,
\* then read locks on the name and on the code, in that order.
ins_def_method(t, g, instruction) ==
    IF \E i \in 0..2 : ~has_arg(instruction, i)
    THEN Fail(t, g, "argument missing")
    ELSE IF \E i \in 0..2 : ~has_object(g, instruction, i)
    THEN Fail(t, g, "undefined register")
    ELSE Defined(t, [g EXCEPT
                       !.phase = "lock",
                       !.want =
                          <<[object |-> g.registers[arg(instruction, 0)],
                             mode |-> "write"],
                            [object |-> g.registers[arg(instruction, 1)],
                             mode |-> "read"],
                            [object |-> g.registers[arg(instruction, 2)],
                             mode |-> "read"]>>],
                 heap)

\* An RwLock grants the lock: no guard of any thread, the asking one
\* included, is a write guard on the object, and none is on it at all when
\* a write lock is asked for.
grantable(lock) ==
    \A u \in ThreadIds :
       \A i \in 1..Len(frames[u]) :
          \A l \in frames[u][i].held :
             l.object = lock.object
             => (lock.mode = "read" /\ l.mode = "read")

\* write_lock! / read_lock!: the handler takes its next lock, once the
\* RwLock grants it; until then the thread is blocked.  A thread that asks
\* for a lock which a guard of its own excludes stays blocked or panics,
\* as the host's lock has it.
lock_acquire(t) ==
    /\ pc[t] = "run"
    /\ Len(frames[t]) > 0
    /\ Top(t).phase = "lock"
    /\ Top(t).want # <<>>
    /\ IF grantable(Head(Top(t).want))
       THEN /\ frames' = SetTop(t, [Top(t) EXCEPT
                              !.held = @ \cup {Head(Top(t).want)},
                              !.want = Tail(@)])
            /\ UNCHANGED <<threads, exit_status, executed_files, heap,
                           thread, pc, result, chan, parsed, stderr, stdout,
                           returned>>
       ELSE /\ \E i \in 1..Len(frames[t]) :
                  \E l \in frames[t][i].held :
                     l.object = Head(Top(t).want).object
            /\ Panic(t, [Top(t) EXCEPT !.held = {}])

\* ins_def_method, with its locks: the kinds of the name and of the code
\* are tested, the method is defined, and the guards are dropped as the
\* handler returns.
ins_def_method_locked(t) ==
    /\ pc[t] = "run"
    /\ Len(frames[t]) > 0
    /\ Top(t).phase = "lock"
    /\ Top(t).want = <<>>
    /\ LET g == [Top(t) EXCEPT !.phase = "loop", !.held = {}]
           instruction == CompiledCode(g.code).instructions[g.index]
           receiver == g.registers[arg(instruction, 0)]
           name_obj == Deref(g.registers[arg(instruction, 1)])
           cc_obj   == Deref(g.registers[arg(instruction, 2)])
       IN  IF name_obj.value.tag # "String"
           THEN Fail(t, g, "not a string object")
           ELSE IF cc_obj.value.tag # "CompiledCode"
           THEN Fail(t, g, "not a compiled code object")
           ELSE Defined(t, g, define_method(t, receiver, name_obj.value.str,
                                            cc_obj.value.code))

ins_def_literal_method(t, g, instruction) ==
    IF ~has_arg(instruction, 0) THEN Fail(t, g, "argument 0 missing")
    ELSE IF ~has_object(g, instruction, 0) THEN Fail(t, g, "undefined register")
    ELSE IF ~has_arg(instruction, 1) THEN Fail(t, g, "argument 1 missing")
    ELSE IF ~has_arg(instruction, 2) THEN Fail(t, g, "argument 2 missing")
    ELSE IF arg(instruction, 1) >= Len(CompiledCode(g.code).string_literals)
    THEN Fail(t, g, "undefined string literal")
    ELSE IF arg(instruction, 2) >= Len(CompiledCode(g.code).code_objects)
    THEN Fail(t, g, "undefined code object")
    ELSE Defined(t, g,
             define_method(t, g.registers[arg(instruction, 0)],
                 CompiledCode(g.code).string_literals[arg(instruction, 1) + 1],
                 CompiledCode(g.code).code_objects[arg(instruction, 2) + 1]))

\* The mode strings ins_file_open has an arm for.
OpenModes == {"r", "r+", "w", "w+", "a", "a+"}

\* The set_error! macro: an error object is bound to the slot and the
\* handler returns Ok.
set_error(t, g, code, slot) ==
    /\ heap' = [heap EXCEPT ![t] = Append(@, Object(object_value_error(code),
                                                    NoObject))]
    /\ frames' = SetTop(t, [g EXCEPT !.registers =
                               set_register(@, slot, Obj(t, Len(heap[t]) + 1))])
    /\ UNCHANGED <<threads, exit_status, executed_files, thread, pc, result,
                   chan, parsed, stderr, stdout, returned>>

\* ins_file_open that returns Err for a mode it has no arm for.
ins_file_open_strict(t, g, instruction) ==
    IF ~has_arg(instruction, 0) THEN Fail(t, g, "argument 0 missing")
    ELSE IF ~has_arg(instruction, 1) THEN Fail(t, g, "argument 1 missing")
    ELSE IF ~has_object(g, instruction, 1) THEN Fail(t, g, "undefined register")
    ELSE IF ~has_arg(instruction, 2) THEN Fail(t, g, "argument 2 missing")
    ELSE IF ~has_object(g, instruction, 2) THEN Fail(t, g, "undefined register")
    ELSE LET slot == arg(instruction, 0)
             path == Deref(g.registers[arg(instruction, 1)]).value.str
             mode == Deref(g.registers[arg(instruction, 2)]).value.str
         IN  IF mode \notin OpenModes
             THEN Fail(t, g, "IO_INVALID_OPEN_MODE")
             ELSE \/ set_error(t, g, "IO_OTHER", slot)
                  \/ /\ heap' = [heap EXCEPT ![t] =
                            Append(@, Object(file(path, mode), file_prototype))]
                     /\ frames' = SetTop(t, [g EXCEPT !.registers =
                            set_register(@, slot, Obj(t, Len(heap[t]) + 1))])
                     /\ UNCHANGED <<threads, exit_status, executed_files,
                                    thread, pc, result, chan, parsed, stderr, stdout,
                                    returned>>

\* ins_file_open; the host's open succeeds or fails.
ins_file_open(t, g, instruction) ==
    IF ~has_arg(instruction, 0) THEN Fail(t, g, "argument 0 missing")
    ELSE IF ~has_arg(instruction, 1) THEN Fail(t, g, "argument 1 missing")
    ELSE IF ~has_object(g, instruction, 1) THEN Fail(t, g, "undefined register")
    ELSE IF ~has_arg(instruction, 2) THEN Fail(t, g, "argument 2 missing")
    ELSE IF ~has_object(g, instruction, 2) THEN Fail(t, g, "undefined register")
    ELSE LET slot == arg(instruction, 0)
             path == Deref(g.registers[arg(instruction, 1)]).value.str
             mode == Deref(g.registers[arg(instruction, 2)]).value.str
         IN  IF mode \notin OpenModes
             THEN set_error(t, g, "IO_INVALID_OPEN_MODE", slot)
             ELSE \/ set_error(t, g, "IO_OTHER", slot)
                  \/ /\ heap' = [heap EXCEPT ![t] =
                            Append(@, Object(file(path, mode), file_prototype))]
                     /\ frames' = SetTop(t, [g EXCEPT !.registers =
                            set_register(@, slot, Obj(t, Len(heap[t]) + 1))])
                     /\ UNCHANGED <<threads, exit_status, executed_files,
                                    thread, pc, result, chan, parsed, stderr, stdout,
                                    returned>>

\* Bind that leaves the slot as the only register that is set.
Bind_alone(t, g, slot, objs, h) ==
    /\ heap' = [heap EXCEPT ![t] = @ \o objs]
    /\ frames' = SetTop(t, [g EXCEPT !.registers = set_register(<<>>, slot, h)])
    /\ UNCHANGED <<threads, exit_status, executed_files, thread, pc, result,
                   chan, parsed, stderr, stdout, returned>>

\* A handler binds a handle to a register, after allocating `objs`, and
\* returns Ok.
Bind(t, g, slot, objs, h) ==
    /\ heap' = [heap EXCEPT ![t] = @ \o objs]
    /\ frames' = SetTop(t, [g EXCEPT !.registers = set_register(@, slot, h)])
    /\ UNCHANGED <<threads, exit_status, executed_files, thread, pc, result,
                   chan, parsed, stderr, stdout, returned>>

\* The quotient of isize's `/`, which rounds towards zero.
quotient(a, b) ==
    LET q == (IF a < 0 THEN -a ELSE a) \div (IF b < 0 THEN -b ELSE b)
    IN  IF (a < 0) = (b < 0) THEN q ELSE -q

\* The exact value of `receiver op arg` for the five arithmetic handlers.
exact(type, a, b) ==
    CASE type = "IntegerAdd" -> a + b
      [] type = "IntegerSub" -> a - b
      [] type = "IntegerMul" -> a * b
      [] type = "IntegerDiv" -> quotient(a, b)
      [] type = "IntegerMod" -> a - b * quotient(a, b)

ArithmeticTypes ==
    {"IntegerAdd", "IntegerSub", "IntegerMul", "IntegerDiv", "IntegerMod"}

\* ins_integer_add, _sub, _mul, _div and _mod: they differ in the operator
\* alone.  `/` and `%` panic when the divisor is 0 and when the quotient
\* overflows (isize::MIN by -1); `+`, `-` and `*` panic on overflow in a
\* build with overflow checks and wrap in a build without them.
ins_integer_arithmetic(t, g, instruction) ==
    IF ~has_arg(instruction, 0) THEN Fail(t, g, "argument 0 missing")
    ELSE IF ~has_arg(instruction, 1) THEN Fail(t, g, "argument 1 missing")
    ELSE IF ~has_object(g, instruction, 1) THEN Fail(t, g, "undefined register")
    ELSE IF ~has_arg(instruction, 2) THEN Fail(t, g, "argument 2 missing")
    ELSE IF ~has_object(g, instruction, 2) THEN Fail(t, g, "undefined register")
    ELSE LET type == instruction.instruction_type
             receiver == Deref(g.registers[arg(instruction, 1)]).value
             argument == Deref(g.registers[arg(instruction, 2)]).value
             bind(i) == Bind(t, g, arg(instruction, 0),
                             <<Object(integer(i), integer_prototype)>>,
                             Obj(t, Len(heap[t]) + 1))
         IN  IF receiver.tag # "Integer" \/ argument.tag # "Integer"
             THEN Fail(t, g, "not integer objects")
             ELSE IF type \in {"IntegerDiv", "IntegerMod"} /\ argument.int = 0
             THEN Panic(t, g)
             ELSE LET r == exact(type, receiver.int, argument.int)
                  IN  IF r >= MinInteger /\ r <= MaxInteger THEN bind(r)
                      ELSE IF type \in {"IntegerDiv", "IntegerMod"}
                      THEN Panic(t, g)
                      ELSE Panic(t, g) \/ bind(wrap(r))

\* The strings that reach StringToBytes in the runs explored, each named
\* by a TLA+ string, and the characters (code points) of each: an empty
\* string, ASCII, and characters of two and of three bytes.
ByteStrings == {"", "abc", "aU+E9", "U+20AC"}

chars(s) ==
    CASE s = "" -> <<>>
      [] s = "abc" -> <<97, 98, 99>>
      [] s = "aU+E9" -> <<97, 233>>
      [] s = "U+20AC" -> <<8364>>

\* The UTF-8 encoding of one character.
utf8(c) ==
    IF c < 128 THEN <<c>>
    ELSE IF c < 2048 THEN <<192 + (c \div 64), 128 + (c % 64)>>
    ELSE IF c < 65536
    THEN <<224 + (c \div 4096), 128 + ((c \div 64) % 64), 128 + (c % 64)>>
    ELSE <<240 + (c \div 262144), 128 + ((c \div 4096) % 64),
           128 + ((c \div 64) % 64), 128 + (c % 64)>>

\* str::as_bytes of the characters cs: a string is held as its UTF-8.
RECURSIVE as_bytes(_)
as_bytes(cs) == IF cs = <<>> THEN <<>> ELSE utf8(Head(cs)) \o as_bytes(Tail(cs))

\* String::from_utf8: the characters the bytes encode, or ok = FALSE when
\* they are not well-formed UTF-8.
RECURSIVE from_utf8(_)
from_utf8(bytes) ==
    IF bytes = <<>> THEN [ok |-> TRUE, chars |-> <<>>]
    ELSE LET b == bytes[1]
             n == IF b < 128 THEN 1
                  ELSE IF b >= 194 /\ b <= 223 THEN 2
                  ELSE IF b >= 224 /\ b <= 239 THEN 3
                  ELSE IF b >= 240 /\ b <= 244 THEN 4
                  ELSE 0
             cont(i) == bytes[i] - 128
             c == CASE n = 1 -> b
                    [] n = 2 -> (b - 192) * 64 + cont(2)
                    [] n = 3 -> (b - 224) * 4096 + cont(2) * 64 + cont(3)
                    [] n = 4 -> (b - 240) * 262144 + cont(2) * 4096
                                + cont(3) * 64 + cont(4)
         IN  IF \/ n = 0
                \/ n > Len(bytes)
                \/ \E i \in 2..n : bytes[i] < 128 \/ bytes[i] > 191
             THEN [ok |-> FALSE, chars |-> <<>>]
             ELSE IF \/ (n = 3 /\ (c < 2048 \/ (c >= 55296 /\ c <= 57343)))
                     \/ (n = 4 /\ (c < 65536 \/ c > 1114111))
             THEN [ok |-> FALSE, chars |-> <<>>]
             ELSE LET rest == from_utf8(SubSeq(bytes, n + 1, Len(bytes)))
                  IN  [ok |-> rest.ok,
                       chars |-> IF rest.ok THEN <<c>> \o rest.chars ELSE <<>>]

\* ins_string_to_bytes that makes one integer of each character.
ins_string_to_bytes_chars(t, g, instruction) ==
    IF ~has_arg(instruction, 0) THEN Fail(t, g, "argument 0 missing")
    ELSE IF ~has_arg(instruction, 1) THEN Fail(t, g, "argument 1 missing")
    ELSE IF ~has_object(g, instruction, 1) THEN Fail(t, g, "undefined register")
    ELSE LET value == Deref(g.registers[arg(instruction, 1)]).value
             bytes == chars(value.str)
             n == Len(heap[t])
         IN  IF value.tag # "String" THEN Fail(t, g, "not a string object")
             ELSE Bind(t, g, arg(instruction, 0),
                       [k \in 1..Len(bytes) |->
                           Object(integer(bytes[k]), integer_prototype)]
                       \o <<Object(array([k \in 1..Len(bytes) |->
                                              Obj(t, n + k)]),
                                   array_prototype)>>,
                       Obj(t, n + Len(bytes) + 1))

\* ins_string_to_bytes: an integer object of each byte of the string, and
\* an array of them.
ins_string_to_bytes(t, g, instruction) ==
    IF ~has_arg(instruction, 0) THEN Fail(t, g, "argument 0 missing")
    ELSE IF ~has_arg(instruction, 1) THEN Fail(t, g, "argument 1 missing")
    ELSE IF ~has_object(g, instruction, 1) THEN Fail(t, g, "undefined register")
    ELSE LET value == Deref(g.registers[arg(instruction, 1)]).value
             bytes == as_bytes(chars(value.str))
             n == Len(heap[t])
         IN  IF value.tag # "String" THEN Fail(t, g, "not a string object")
             ELSE Bind(t, g, arg(instruction, 0),
                       [k \in 1..Len(bytes) |->
                           Object(integer(bytes[k]), integer_prototype)]
                       \o <<Object(array([k \in 1..Len(bytes) |->
                                              Obj(t, n + k)]),
                                   array_prototype)>>,
                       Obj(t, n + Len(bytes) + 1))

\* ins_string_from_bytes: the string whose UTF-8 is the integers of the
\* array, each taken `as u8`; try_error! binds an error object when they
\* are not well-formed.
ins_string_from_bytes(t, g, instruction) ==
    IF ~has_arg(instruction, 0) THEN Fail(t, g, "argument 0 missing")
    ELSE IF ~has_arg(instruction, 1) THEN Fail(t, g, "argument 1 missing")
    ELSE IF ~has_object(g, instruction, 1) THEN Fail(t, g, "undefined register")
    ELSE LET value == Deref(g.registers[arg(instruction, 1)]).value
             bytes == [k \in 1..Len(value.elements) |->
                          Deref(value.elements[k]).value.int % 256]
             decoded == from_utf8(bytes)
         IN  IF value.tag # "Array" THEN Fail(t, g, "not an array object")
             ELSE IF \E k \in 1..Len(value.elements) :
                        Deref(value.elements[k]).value.tag # "Integer"
             THEN Fail(t, g, "not an integer object")
             ELSE IF ~decoded.ok
             THEN set_error(t, g, "invalid utf-8 sequence", arg(instruction, 0))
             ELSE Bind(t, g, arg(instruction, 0),
                       <<Object(string(CHOOSE s \in ByteStrings :
                                           chars(s) = decoded.chars),
                                string_prototype)>>,
                       Obj(t, Len(heap[t]) + 1))

\* ins_string_equals: the true or the false singleton.
ins_string_equals(t, g, instruction) ==
    IF ~has_arg(instruction, 0) THEN Fail(t, g, "argument 0 missing")
    ELSE IF ~has_arg(instruction, 1) THEN Fail(t, g, "argument 1 missing")
    ELSE IF ~has_object(g, instruction, 1) THEN Fail(t, g, "undefined register")
    ELSE IF ~has_arg(instruction, 2) THEN Fail(t, g, "argument 2 missing")
    ELSE IF ~has_object(g, instruction, 2) THEN Fail(t, g, "undefined register")
    ELSE LET receiver == Deref(g.registers[arg(instruction, 1)]).value
             argument == Deref(g.registers[arg(instruction, 2)]).value
         IN  IF receiver.tag # "String" \/ argument.tag # "String"
             THEN Fail(t, g, "not string objects")
             ELSE Bind(t, g, arg(instruction, 0), <<>>,
                       IF receiver.str = argument.str
                       THEN true_object ELSE false_object)

\* ins_get_toplevel
ins_get_toplevel(t, g, instruction) ==
    IF ~has_arg(instruction, 0) THEN Fail(t, g, "argument 0 missing")
    ELSE Bind(t, g, arg(instruction, 0), <<>>, top_level)

\* ins_get_string_prototype
ins_get_string_prototype(t, g, instruction) ==
    IF ~has_arg(instruction, 0) THEN Fail(t, g, "argument 0 missing")
    ELSE Bind(t, g, arg(instruction, 0), <<>>, string_prototype)

\* ins_stdout_write in which a failed write is an error of the handler.
ins_stdout_write_fatal(t, g, instruction) ==
    IF ~has_arg(instruction, 0) THEN Fail(t, g, "argument 0 missing")
    ELSE IF ~has_arg(instruction, 1) THEN Fail(t, g, "argument 1 missing")
    ELSE IF ~has_object(g, instruction, 1) THEN Fail(t, g, "undefined register")
    ELSE LET value == Deref(g.registers[arg(instruction, 1)]).value
             bytes == as_bytes(chars(value.str))
         IN  IF value.tag # "String"
             THEN Fail(t, g, "not a string object")
             ELSE \/ Fail(t, g, "IO_OTHER")
                  \/ \E n \in 0..Len(bytes) :
                        /\ stdout' = stdout \o SubSeq(bytes, 1, n)
                        /\ heap' = [heap EXCEPT ![t] = Append(@,
                               Object(integer(n), integer_prototype))]
                        /\ frames' = SetTop(t, [g EXCEPT !.registers =
                               set_register(@, arg(instruction, 0),
                                            Obj(t, Len(heap[t]) + 1))])
                        /\ UNCHANGED <<threads, exit_status, executed_files,
                                       thread, pc, result, chan, parsed,
                                       stderr, returned>>

\* ins_stdout_write: the host takes some or all of the string's bytes and
\* the handler binds their number, or the write fails and try_io! binds an
\* error object; either way the handler returns Ok.
ins_stdout_write(t, g, instruction) ==
    IF ~has_arg(instruction, 0) THEN Fail(t, g, "argument 0 missing")
    ELSE IF ~has_arg(instruction, 1) THEN Fail(t, g, "argument 1 missing")
    ELSE IF ~has_object(g, instruction, 1) THEN Fail(t, g, "undefined register")
    ELSE LET value == Deref(g.registers[arg(instruction, 1)]).value
             bytes == as_bytes(chars(value.str))
         IN  IF value.tag # "String" THEN Fail(t, g, "not a string object")
             ELSE \/ set_error(t, g, "IO_OTHER", arg(instruction, 0))
                  \/ \E n \in 0..Len(bytes) :
                        /\ stdout' = stdout \o SubSeq(bytes, 1, n)
                        /\ heap' = [heap EXCEPT ![t] = Append(@,
                               Object(integer(n), integer_prototype))]
                        /\ frames' = SetTop(t, [g EXCEPT !.registers =
                               set_register(@, arg(instruction, 0),
                                            Obj(t, Len(heap[t]) + 1))])
                        /\ UNCHANGED <<threads, exit_status, executed_files,
                                       thread, pc, result, chan, parsed,
                                       stderr, returned>>

\* ins_array_at: the element at the index that argument 2 is.
ins_array_at(t, g, instruction) ==
    IF ~has_arg(instruction, 0) THEN Fail(t, g, "argument 0 missing")
    ELSE IF ~has_arg(instruction, 1) THEN Fail(t, g, "argument 1 missing")
    ELSE IF ~has_object(g, instruction, 1) THEN Fail(t, g, "undefined register")
    ELSE IF ~has_arg(instruction, 2) THEN Fail(t, g, "argument 2 missing")
    ELSE LET value == Deref(g.registers[arg(instruction, 1)]).value
             index == arg(instruction, 2)
         IN  IF value.tag # "Array" THEN Fail(t, g, "not an array object")
             ELSE IF index >= Len(value.elements)
             THEN Fail(t, g, "array index out of bounds")
             ELSE Bind(t, g, arg(instruction, 0), <<>>,
                       value.elements[index + 1])

\* ins_array_remove: the array is the object in the register that argument
\* 1 names, and the index is argument 1 as well.  Vec::remove takes the
\* element out and moves the later ones down.
ins_array_remove(t, g, instruction) ==
    IF ~has_arg(instruction, 0) THEN Fail(t, g, "argument 0 missing")
    ELSE IF ~has_arg(instruction, 1) THEN Fail(t, g, "argument 1 missing")
    ELSE IF ~has_object(g, instruction, 1) THEN Fail(t, g, "undefined register")
    ELSE LET h == g.registers[arg(instruction, 1)]
             value == Deref(h).value
             index == arg(instruction, 1)
         IN  IF value.tag # "Array" THEN Fail(t, g, "not an array object")
             ELSE IF index >= Len(value.elements)
             THEN Fail(t, g, "array index out of bounds")
             ELSE /\ heap' = [heap EXCEPT ![h.owner][h.n].value.elements =
                             SubSeq(@, 1, index)
                             \o SubSeq(@, index + 2, Len(@))]
                  /\ frames' = SetTop(t, [g EXCEPT !.registers =
                         set_register(@, arg(instruction, 0),
                                      value.elements[index + 1])])
                  /\ UNCHANGED <<threads, exit_status, executed_files, thread,
                                 pc, result, chan, parsed, stderr, stdout, returned>>

\* ins_set_local: local arg(0) of the frame becomes the object in register
\* arg(1).  Thread::set_local returns nothing to the handler; past the end
\* of the locals it panics or does nothing.
ins_set_local(t, g, instruction) ==
    IF ~has_arg(instruction, 0) THEN Fail(t, g, "argument 0 missing")
    ELSE IF ~has_arg(instruction, 1) THEN Fail(t, g, "argument 1 missing")
    ELSE IF ~has_object(g, instruction, 1) THEN Fail(t, g, "undefined register")
    ELSE IF arg(instruction, 0) >= Len(g.locals)
    THEN Panic(t, g) \/ Defined(t, g, heap)
    ELSE Defined(t, [g EXCEPT !.locals[arg(instruction, 0) + 1] =
                                  g.registers[arg(instruction, 1)]], heap)

\* ins_get_local: register arg(0) becomes what instruction_object! yields
\* for argument 1, the object in the register of that number.
ins_get_local(t, g, instruction) ==
    IF ~has_arg(instruction, 0) THEN Fail(t, g, "argument 0 missing")
    ELSE IF ~has_arg(instruction, 1) THEN Fail(t, g, "argument 1 missing")
    ELSE IF ~has_object(g, instruction, 1) THEN Fail(t, g, "undefined register")
    ELSE Bind(t, g, arg(instruction, 0), <<>>,
              g.registers[arg(instruction, 1)])

\* ins_file_read: the rest of the file as a string; the host's read
\* succeeds or fails (try_io! binds an error object and returns Ok).  The
\* optional argument 2 names a register with the buffer's capacity.
ins_file_read(t, g, instruction) ==
    IF ~has_arg(instruction, 0) THEN Fail(t, g, "argument 0 missing")
    ELSE IF ~has_arg(instruction, 1) THEN Fail(t, g, "argument 1 missing")
    ELSE IF ~has_object(g, instruction, 1) THEN Fail(t, g, "undefined register")
    ELSE IF Deref(g.registers[arg(instruction, 1)]).value.tag # "File"
    THEN Fail(t, g, "not a file object")
    ELSE IF has_arg(instruction, 2) /\ ~has_object(g, instruction, 2)
    THEN Fail(t, g, "undefined register")
    ELSE IF has_arg(instruction, 2)
            /\ Deref(g.registers[arg(instruction, 2)]).value.tag # "Integer"
    THEN Fail(t, g, "not an integer object")
    ELSE \/ set_error(t, g, "IO_OTHER", arg(instruction, 0))
         \/ \E buffer \in FileContents :
               Bind(t, g, arg(instruction, 0),
                    <<Object(string(buffer), integer_prototype)>>,
                    Obj(t, Len(heap[t]) + 1))

\* One iteration of run's while loop.
run_step(t) ==
    /\ pc[t] = "run"
    /\ Len(frames[t]) > 0
    /\ Top(t).phase = "loop"
    /\ Top(t).index < Len(CompiledCode(Top(t).code).instructions)
    /\ LET f == Top(t)
           instruction == CompiledCode(f.code).instructions[f.index + 1]
           g == [f EXCEPT !.skip_until = NoTarget, !.index = f.index + 1,
                          !.ran = @ \cup {f.index}]
       IN  IF f.skip_until # NoTarget /\ f.index < f.skip_until
           THEN UNCHANGED vars
           ELSE CASE instruction.instruction_type \in SimpleTypes ->
                       Simple(t, g, instruction)
                  [] instruction.instruction_type = "StartThread" ->
                       ins_start_thread(t, g, instruction)
                  [] instruction.instruction_type = "RunFileFast" ->
                       ins_run_file_fast(t, g, instruction)
                  [] instruction.instruction_type = "Send" ->
                       ins_send(t, g, instruction)
                  [] instruction.instruction_type = "RunCode" ->
                       ins_run_code(t, g, instruction)
                  [] instruction.instruction_type = "DefMethod" ->
                       ins_def_method(t, g, instruction)
                  [] instruction.instruction_type = "DefLiteralMethod" ->
                       ins_def_literal_method(t, g, instruction)
                  [] instruction.instruction_type = "FileOpen" ->
                       ins_file_open(t, g, instruction)
                  [] instruction.instruction_type = "StringToBytes" ->
                       ins_string_to_bytes(t, g, instruction)
                  [] instruction.instruction_type = "StringFromBytes" ->
                       ins_string_from_bytes(t, g, instruction)
                  [] instruction.instruction_type = "StringEquals" ->
                       ins_string_equals(t, g, instruction)
                  [] instruction.instruction_type = "GetToplevel" ->
                       ins_get_toplevel(t, g, instruction)
                  [] instruction.instruction_type = "GetStringPrototype" ->
                       ins_get_string_prototype(t, g, instruction)
                  [] instruction.instruction_type = "StdoutWrite" ->
                       ins_stdout_write(t, g, instruction)
                  [] instruction.instruction_type = "ArrayAt" ->
                       ins_array_at(t, g, instruction)
                  [] instruction.instruction_type = "ArrayRemove" ->
                       ins_array_remove(t, g, instruction)
                  [] instruction.instruction_type = "SetLocal" ->
                       ins_set_local(t, g, instruction)
                  [] instruction.instruction_type = "GetLocal" ->
                       ins_get_local(t, g, instruction)
                  [] instruction.instruction_type = "FileRead" ->
                       ins_file_read(t, g, instruction)
                  [] instruction.instruction_type \in ArithmeticTypes ->
                       ins_integer_arithmetic(t, g, instruction)

\* run_exit that returns register 0 when no Return recorded a value.
run_exit_register(t) ==
    /\ pc[t] = "run"
    /\ Len(frames[t]) > 0
    /\ Top(t).phase = "loop"
    /\ Top(t).index >= Len(CompiledCode(Top(t).code).instructions)
    /\ frames' = SetTop(t, [Top(t) EXCEPT
           !.phase = "returned",
           !.retval = IF @ = NoObject
                      THEN get_register_option(Top(t).registers, 0) ELSE @])
    /\ UNCHANGED <<threads, exit_status, executed_files, heap, thread, pc,
                   result, chan, parsed, stderr, stdout, returned>>

\* run's while condition fails: Ok(retval).
run_exit(t) ==
    /\ pc[t] = "run"
    /\ Len(frames[t]) > 0
    /\ Top(t).phase = "loop"
    /\ Top(t).index >= Len(CompiledCode(Top(t).code).instructions)
    /\ frames' = SetTop(t, [Top(t) EXCEPT !.phase = "returned"])
    /\ UNCHANGED <<threads, exit_status, executed_files, heap, thread, pc,
                   result, chan, parsed, stderr, stdout, returned>>

\* start_thread: allocate_thread, after the spawn.
start_thread_allocate(t) ==
    /\ pc[t] = "run"
    /\ Len(frames[t]) > 0
    /\ Top(t).phase = "spawned"
    /\ allocate_thread(Top(t).child, Top(t).callee, TRUE, FALSE,
                       SetTop(t, [Top(t) EXCEPT !.phase = "allocated"]))
    /\ UNCHANGED <<exit_status, executed_files, heap, pc, result, chan,
                   parsed, stderr, stdout, returned>>

\* start_thread: the send, and ins_start_thread's set_register.
start_thread_send(t) ==
    /\ pc[t] = "run"
    /\ Len(frames[t]) > 0
    /\ Top(t).phase = "allocated"
    /\ chan' = [chan EXCEPT ![Top(t).child] = TRUE]
    /\ frames' = SetTop(t, [Top(t) EXCEPT
           !.phase = "loop",
           !.registers = set_register(@, Top(t).slot, ThreadObj(Top(t).child))])
    /\ UNCHANGED <<threads, exit_status, executed_files, heap, thread, pc,
                   result, parsed, stderr, stdout, returned>>

\* A worker that does not wait for the send.
recv_ready_early(w) == TRUE

\* The worker's chan_receiver.recv() has a thread object to return.
recv_ready(w) == chan[w]

\* The spawned closure: recv, then run_thread.
worker_recv(w) ==
    /\ pc[w] = "recv"
    /\ recv_ready(w)
    /\ pc' = [pc EXCEPT ![w] = "run"]
    /\ UNCHANGED <<threads, exit_status, executed_files, heap, thread, frames,
                   result, chan, parsed, stderr, stdout, returned>>

\* run_file_parse that takes the path of a file that did not parse out of
\* executed_files again.
run_file_parse_forgets(t) ==
    /\ pc[t] = "run"
    /\ Len(frames[t]) > 0
    /\ Top(t).phase = "parse"
    /\ parsed' = [parsed EXCEPT ![Top(t).path] = @ + 1]
    /\ IF parse_file(Top(t).path) = <<>>
       THEN /\ Raise(t, "Failed to parse")
            /\ frames' = SetTop(t, [Top(t) EXCEPT !.phase = "failed"])
            /\ executed_files' = executed_files \ {Top(t).path}
       ELSE /\ frames' = run_code(t, SetTop(t, [Top(t) EXCEPT !.phase = "call"]),
                                  parse_file(Top(t).path), <<>>)
            /\ UNCHANGED <<pc, result, executed_files>>
    /\ UNCHANGED <<threads, exit_status, heap, thread, chan, stderr, stdout, returned>>

\* ins_run_file_fast: the parse, and run_code on what it yields.
run_file_parse(t) ==
    /\ pc[t] = "run"
    /\ Len(frames[t]) > 0
    /\ Top(t).phase = "parse"
    /\ parsed' = [parsed EXCEPT ![Top(t).path] = @ + 1]
    /\ IF parse_file(Top(t).path) = <<>>
       THEN /\ Raise(t, "Failed to parse")
            /\ frames' = SetTop(t, [Top(t) EXCEPT !.phase = "failed"])
       ELSE /\ frames' = run_code(t, SetTop(t, [Top(t) EXCEPT !.phase = "call"]),
                                  parse_file(Top(t).path), <<>>)
            /\ UNCHANGED <<pc, result>>
    /\ UNCHANGED <<threads, exit_status, executed_files, heap, thread, chan,
                   stderr, stdout, returned>>

\* run_return that leaves the frame of a run that returned no value.
run_return_pops_values_only(t) ==
    /\ pc[t] = "run"
    /\ Len(frames[t]) > 0
    /\ Top(t).phase = "returned"
    /\ IF Len(frames[t]) = 1
       THEN /\ result' = [result EXCEPT ![t] = Ok(Top(t).retval)]
            /\ pc' = [pc EXCEPT ![t] = "remove"]
            /\ UNCHANGED frames
       ELSE LET n == Len(frames[t])
                caller == frames[t][n - 1]
            IN  /\ frames' = [frames EXCEPT ![t] =
                       IF Top(t).retval # NoObject
                       THEN Append(SubSeq(@, 1, n - 2),
                                   [caller EXCEPT
                                      !.phase = "loop",
                                      !.registers =
                                          set_register(@, caller.slot,
                                                       Top(t).retval)])
                       ELSE Append(SubSeq(@, 1, n - 2),
                                   [caller EXCEPT !.phase = "loop"])
                            \o <<[Top(t) EXCEPT !.phase = "popped"]>>]
                /\ UNCHANGED <<pc, result>>
    /\ UNCHANGED <<threads, exit_status, executed_files, heap, thread, chan,
                   parsed, stderr, stdout, returned>>

\* run_return that binds the result slot whether or not there is a value.
run_return_always_binds(t) ==
    /\ pc[t] = "run"
    /\ Len(frames[t]) > 0
    /\ Top(t).phase = "returned"
    /\ IF Len(frames[t]) = 1
       THEN /\ result' = [result EXCEPT ![t] = Ok(Top(t).retval)]
            /\ pc' = [pc EXCEPT ![t] = "remove"]
            /\ UNCHANGED frames
       ELSE LET n == Len(frames[t])
                caller == frames[t][n - 1]
            IN  /\ frames' = [frames EXCEPT ![t] =
                       Append(SubSeq(@, 1, n - 2),
                              [caller EXCEPT
                                 !.phase = "loop",
                                 !.registers =
                                     set_register(@, caller.slot,
                                                  Top(t).retval)])]
                /\ UNCHANGED <<pc, result>>
    /\ UNCHANGED <<threads, exit_status, executed_files, heap, thread, chan,
                   parsed, stderr, stdout, returned>>

\* run has returned Ok(retval): to run_thread from the root frame, and
\* otherwise to run_code, which pops the frame, and to the calling handler,
\* which binds a value that is Some to its result slot.
run_return(t) ==
    /\ pc[t] = "run"
    /\ Len(frames[t]) > 0
    /\ Top(t).phase = "returned"
    /\ IF Len(frames[t]) = 1
       THEN /\ result' = [result EXCEPT ![t] = Ok(Top(t).retval)]
            /\ pc' = [pc EXCEPT ![t] = "remove"]
            /\ UNCHANGED frames
       ELSE LET n == Len(frames[t])
                caller == frames[t][n - 1]
            IN  /\ frames' = [frames EXCEPT ![t] =
                       Append(SubSeq(@, 1, n - 2),
                              [caller EXCEPT
                                 !.phase = "loop",
                                 !.registers =
                                     IF Top(t).retval # NoObject
                                     THEN set_register(@, caller.slot,
                                                       Top(t).retval)
                                     ELSE @])]
                /\ UNCHANGED <<pc, result>>
    /\ UNCHANGED <<threads, exit_status, executed_files, heap, thread, chan,
                   parsed, stderr, stdout, returned>>

\* run_thread: the thread leaves the thread list.
thread_remove(t) ==
    /\ pc[t] = "remove"
    /\ threads' = threads \ {t}
    /\ pc' = [pc EXCEPT ![t] = "unpin"]
    /\ UNCHANGED <<exit_status, executed_files, heap, thread, frames, result,
                   chan, parsed, stderr, stdout, returned>>

\* run_thread: the thread object is unpinned.
thread_unpin(t) ==
    /\ pc[t] = "unpin"
    /\ thread' = [thread EXCEPT ![t].pinned = FALSE]
    /\ pc' = [pc EXCEPT ![t] = "finish"]
    /\ UNCHANGED <<threads, exit_status, executed_files, heap, frames, result,
                   chan, parsed, stderr, stdout, returned>>

\* Where an OS thread is once run_thread has returned.
AfterRunThread(t) == IF t = Main THEN "exit" ELSE "done"

\* each_frame that visits the running frame alone.
Backtrace_running_frame(t) == <<Top(t).code>>

\* CallFrame::each_frame: the frame and its parents.
Backtrace(t) == [i \in 1..Len(frames[t]) |-> frames[t][Len(frames[t]) + 1 - i].code]

\* set_value that also puts the exit status back to Ok.
set_value_resets_status(t) ==
    /\ pc[t] = "finish"
    /\ result[t].status = "Ok"
    /\ thread' = [thread EXCEPT ![t].value = result[t].value]
    /\ exit_status' = "Ok"
    /\ pc' = [pc EXCEPT ![t] = AfterRunThread(t)]
    /\ UNCHANGED <<threads, executed_files, heap, frames, result, chan,
                   parsed, stderr, stdout, returned>>

\* set_value that stores no value.
set_value_drops(t) ==
    /\ pc[t] = "finish"
    /\ result[t].status = "Ok"
    /\ thread' = [thread EXCEPT ![t].value = NoObject]
    /\ pc' = [pc EXCEPT ![t] = AfterRunThread(t)]
    /\ UNCHANGED <<threads, exit_status, executed_files, heap, frames, result,
                   chan, parsed, stderr, stdout, returned>>

\* run_thread, Ok arm: Thread::set_value.
set_value(t) ==
    /\ pc[t] = "finish"
    /\ result[t].status = "Ok"
    /\ thread' = [thread EXCEPT ![t].value = result[t].value]
    /\ pc' = [pc EXCEPT ![t] = AfterRunThread(t)]
    /\ UNCHANGED <<threads, exit_status, executed_files, heap, frames, result,
                   chan, parsed, stderr, stdout, returned>>

\* run_thread, Err arm: error().
error(t) ==
    /\ pc[t] = "finish"
    /\ result[t].status = "Err"
    /\ exit_status' = "Err"
    /\ stderr' = [stderr EXCEPT ![t] = Append(@,
           [message |-> result[t].message, backtrace |-> Backtrace(t)])]
    /\ pc' = [pc EXCEPT ![t] = "stop"]
    /\ UNCHANGED <<threads, executed_files, heap, thread, frames, result,
                   chan, parsed, returned, stdout>>

\* run_thread, Err arm: ThreadList::stop sets should_stop on every
\* registered thread.
threads_stop(t) ==
    /\ pc[t] = "stop"
    /\ thread' = [u \in ThreadIds |->
                     IF u \in threads
                     THEN [thread[u] EXCEPT !.should_stop = TRUE]
                     ELSE thread[u]]
    /\ pc' = [pc EXCEPT ![t] = AfterRunThread(t)]
    /\ UNCHANGED <<threads, exit_status, executed_files, heap, frames, result,
                   chan, parsed, stderr, stdout, returned>>

\* start: run_thread has returned; the exit status is read and returned.
start_return ==
    /\ pc[Main] = "exit"
    /\ returned' = exit_status
    /\ pc' = [pc EXCEPT ![Main] = "done"]
    /\ UNCHANGED <<threads, exit_status, executed_files, heap, thread, frames,
                   result, chan, parsed, stderr, stdout>>

\* The steps of OS thread t.
ThreadNext(t) ==
    \/ run_enter(t)
    \/ run_step(t)
    \/ run_exit(t)
    \/ run_return(t)
    \/ start_thread_allocate(t)
    \/ start_thread_send(t)
    \/ run_file_parse(t)
    \/ lock_acquire(t)
    \/ ins_def_method_locked(t)
    \/ thread_remove(t)
    \/ thread_unpin(t)
    \/ set_value(t)
    \/ error(t)
    \/ threads_stop(t)

Next ==
    \/ \E code \in RootCodes : start(code)
    \/ start_return
    \/ \E w \in Workers : worker_recv(w)
    \/ \E t \in ThreadIds : ThreadNext(t)

Spec == Init /\ [][Next]_vars

\* The runs of a failing worker beside a worker that loops, and those of
\* the codes that neither invoke nor jump back.
StopRootCodes ==
    {<<"root", "fail", "loop">>, <<"root", "loop", "fail">>} \cup StraightCodes

StopNext ==
    \/ \E code \in StopRootCodes : start(code)
    \/ start_return
    \/ \E w \in Workers : worker_recv(w)
    \/ \E t \in ThreadIds : ThreadNext(t)

\* The runs of StopRootCodes in which every OS thread that can take a step
\* eventually takes one: the host schedules its threads preemptively.
FairSpec ==
    /\ Init
    /\ [][StopNext]_vars
    /\ WF_vars(\E code \in StopRootCodes : start(code))
    /\ WF_vars(start_return)
    /\ \A w \in Workers : WF_vars(worker_recv(w))
    /\ \A t \in ThreadIds : WF_vars(ThreadNext(t))

----------------------------------------------------------------------------
(* Properties. *)

\* Thread t is at the head of run's while loop, between two iterations.
AtLoopHead(t) ==
    /\ pc[t] = "run"
    /\ Len(frames[t]) > 0
    /\ Top(t).phase = "loop"

\* Thread t has raised a fatal error: its run has returned Err.
Raised(t) == result[t].status = "Err"

\* Thread t has left run for good, by its return or by the unwinding of a
\* panic.
LeftRun(t) ==
    pc[t] \in {"remove", "unpin", "finish", "stop", "exit", "done", "panicked"}

\* The index of the instruction a loop that assigns a branch target to the
\* index directly would dispatch next, where run is on frame f.
next_index(f) == IF f.skip_until # NoTarget THEN f.skip_until ELSE f.index

\* What a run has computed so far, with the index of that direct loop.
Direct(f) ==
    [registers |-> f.registers, locals |-> f.locals, retval |-> f.retval,
     index |-> next_index(f)]

\* One iteration of the direct loop from d, on thread t in a frame of
\* `code`: the handler of the instruction at d.index, then the index it
\* leaves (a branch or jump target when there is one).
DirectStep(t, code, d) ==
    LET instruction == CompiledCode(code).instructions[d.index + 1]
        type == instruction.instruction_type
        o == Handle(t, [Frame(code) EXCEPT !.registers = d.registers],
                    instruction)
    IN  [registers |-> o.registers, locals |-> d.locals,
         retval |-> IF type = "Return" THEN o.value ELSE d.retval,
         index |-> IF o.target # NoTarget THEN o.target ELSE d.index + 1]

\* Thread t is in a run of a code of StraightCodes on its root frame.
InStraightRun(t) ==
    /\ pc[t] = "run"
    /\ Len(frames[t]) = 1
    /\ Top(t).code \in StraightCodes

\* Thread t is in such a run and every handler of the code is one of
\* Handle.
InDirectRun(t) ==
    /\ InStraightRun(t)
    /\ \A i \in 1..Len(CompiledCode(Top(t).code).instructions) :
          CompiledCode(Top(t).code).instructions[i].instruction_type
              \in SimpleTypes

\* Thread t has taken a conditional branch and has not resumed yet.
BranchPending(t) == AtLoopHead(t) /\ Top(t).skip_until # NoTarget

\* C11: the run of a code with no nested invocation and no Goto to its own
\* index or before it terminates, a taken conditional branch over more than
\* one instruction included: the thread eventually leaves run.
C11_StraightRunTerminates ==
    \A t \in ThreadIds : InStraightRun(t) ~> LeftRun(t)

\* C12: on a code whose conditional branches are forward, each iteration of
\* run's loop that changes the run is an iteration of the direct loop (same
\* registers, locals, return value and next instruction), and a branch that
\* was taken is resumed: the loop gets to its target.
C12_SkipLoopIsDirectLoop ==
    /\ [][ \A t \in ThreadIds :
              (/\ InDirectRun(t)
               /\ AtLoopHead(t)
               /\ frames'[t] # frames[t]
               /\ Len(frames'[t]) = 1
               /\ frames'[t][1].phase = "loop")
              => Direct(frames'[t][1])
                    = DirectStep(t, Top(t).code, Direct(Top(t))) ]_vars
    /\ \A t \in ThreadIds :
          (InDirectRun(t) /\ BranchPending(t)) ~> ~BranchPending(t)

\* C1: once error() has run for any thread the exit status is failure, and
\* no step of any thread, the completion of another thread included, puts
\* a failed exit status back to success.
C1_ExitStatusStaysFailed ==
    [][ /\ exit_status = "Err" => exit_status' = "Err"
        /\ \A t \in ThreadIds :
              (Raised(t) /\ pc'[t] \in {"stop", "exit", "done"})
                  => exit_status' = "Err" ]_vars

\* C1, the case: start returned failure after its own thread completed
\* with a value, a worker having failed.
C1_Witness ==
    /\ returned = "Err"
    /\ result[Main].status = "Ok"
    /\ \E w \in Workers : Raised(w)

\* C2: start does not return until every thread spawned by StartThread has
\* finished its code (a worker is spawned and has not left run_thread).
C2_StartWaitsForThreads ==
    returned # "None" => \A w \in Workers : pc[w] \in {"free", "done"}

\* C3: when start returns and some thread has raised a fatal error by
\* then, the status returned is failure.
C3_StartReportsFailure ==
    [][ (returned = "None" /\ returned' # "None"
            /\ \E t \in ThreadIds : Raised(t))
          => returned' = "Err" ]_vars

\* C4: after a thread has raised a fatal error, every other thread
\* eventually stops executing handlers: it is no longer in, or about to
\* enter, run.
C4_PeersEventuallyStop ==
    \A t \in ThreadIds :
        (\E e \in ThreadIds \ {t} : Raised(e)) ~> (pc[t] \notin {"recv", "run"})

\* C5: a thread whose should_stop is set while it is at the head of the
\* dispatch loop runs no further iteration of the loop.
C5_StopEndsLoop ==
    [][ \A t \in ThreadIds :
           (AtLoopHead(t) /\ thread[t].should_stop) => ~run_step(t) ]_vars

\* C6: a run entered with should_stop set returns Ok(None) and changes no
\* register, local, call frame or heap object.
C6_StoppedRunDoesNothing ==
    [][ \A t \in ThreadIds :
           (/\ pc[t] = "run"
            /\ Len(frames[t]) > 0
            /\ Top(t).phase = "entry"
            /\ thread[t].should_stop
            /\ frames'[t] # frames[t])
           => /\ frames'[t] = [frames[t] EXCEPT
                                 ![Len(frames[t])].phase = "returned"]
              /\ Top(t).retval = NoObject
              /\ heap' = heap ]_vars

\* C6, the case: a run that returned with its first instruction still to
\* execute, on a thread asked to stop.
C6_Witness ==
    \E t \in ThreadIds :
        /\ pc[t] = "run"
        /\ Len(frames[t]) > 0
        /\ Top(t).phase = "returned"
        /\ Top(t).index = 0
        /\ Len(CompiledCode(Top(t).code).instructions) > 0
        /\ thread[t].should_stop

\* C7: under every interleaving, a path is parsed, and so run, at most
\* once.
C7_FileRunAtMostOnce == \A p \in Paths : parsed[p] <= 1

\* C7, the case: two threads have executed RunFileFast of path "a"; the
\* worker ran the file and holds its value, for the main thread the
\* instruction was a no-op.
C7_Witness ==
    /\ parsed["a"] = 1
    /\ AtLoopHead(Main)
    /\ Top(Main).code[1] = "root"
    /\ Top(Main).index = 3
    /\ 2 \notin DOMAIN Top(Main).registers
    /\ \E w \in Workers :
          /\ Len(frames[w]) = 1
          /\ Top(w).code = <<"file">>
          /\ 0 \in DOMAIN Top(w).registers

\* C8: no step takes a path out of the executed-files set.
C8_ExecutedFilesGrow == [][executed_files \subseteq executed_files']_vars

\* C8, the case: a file failed to parse and its path is in the set, with
\* the thread that ran it ended.
C8_Witness ==
    /\ "bad" \in executed_files
    /\ \E t \in ThreadIds : pc[t] = "done" /\ result[t].message = "Failed to parse"

\* C9: a worker that is past its recv has a thread object, and while it
\* runs its code that object is in the thread list.
C9_WorkerWaitsForThreadObject ==
    \A w \in Workers :
        /\ pc[w] \notin {"free", "recv"} => thread[w].allocated
        /\ pc[w] = "run" => w \in threads

\* C9, the case: a worker has executed an instruction.
C9_Witness ==
    \E w \in Workers : pc[w] = "run" /\ Len(frames[w]) > 0 /\ Top(w).index > 0

\* C10: a thread that has ended holds the value its run returned, which is
\* what its last Return recorded, when it ended without a fatal error, and
\* holds no value when it ended with one; a thread that has not ended
\* holds no value.
C10_ThreadValueIsReturnValue ==
    \A t \in ThreadIds :
        /\ (pc[t] \in {"exit", "done"} /\ result[t].status = "Ok")
              => thread[t].value = frames[t][1].retval
        /\ (pc[t] \notin {"exit", "done"} \/ Raised(t))
              => thread[t].value = NoObject

\* C10, the case: a worker whose code was SetInteger 7, Return has ended
\* and its value is an integer object 7.
C10_Witness ==
    \E w \in Workers :
        /\ pc[w] = "done"
        /\ thread[w].value.space = "heap"
        /\ heap[thread[w].value.owner][thread[w].value.n].value = integer(7)

\* The top frame of thread t after the step.
TopNext(t) == frames'[t][Len(frames'[t])]

\* The instruction run's loop is at, on frame f.
InstructionAt(f) == CompiledCode(f.code).instructions[f.index + 1]

\* Thread t is at the head of the loop and its next iteration dispatches
\* the handler of an instruction of this type.
Dispatches(t, type) ==
    /\ AtLoopHead(t)
    /\ Top(t).index < Len(CompiledCode(Top(t).code).instructions)
    /\ ~(Top(t).skip_until # NoTarget /\ Top(t).index < Top(t).skip_until)
    /\ InstructionAt(Top(t)).instruction_type = type

\* The object a handle names after the step.
DerefNext(h) ==
    IF h.space = "heap" THEN heap'[h.owner][h.n] ELSE Object(none, NoObject)

\* C13: Return records the content of the register it names as it is when
\* the Return executes (none when the register is not set, whatever an
\* earlier Return recorded) and the loop goes on with the next instruction;
\* no other handler changes the recorded value; what run returns from the
\* root frame is the recorded value.
C13_LastReturnWins ==
    [][ \A t \in ThreadIds :
          /\ (Dispatches(t, "Return") /\ has_arg(InstructionAt(Top(t)), 0)
                 /\ frames'[t] # frames[t])
             => /\ Len(frames'[t]) = Len(frames[t])
                /\ TopNext(t).retval =
                       get_register_option(Top(t).registers,
                                           arg(InstructionAt(Top(t)), 0))
                /\ TopNext(t).phase = "loop"
                /\ TopNext(t).index = Top(t).index + 1
          /\ (AtLoopHead(t) /\ ~Dispatches(t, "Return")
                 /\ frames'[t] # frames[t])
             => frames'[t][Len(frames[t])].retval = Top(t).retval
          /\ (pc[t] = "run" /\ pc'[t] = "remove" /\ Len(frames[t]) = 1
                 /\ Top(t).phase = "returned")
             => result'[t] = Ok(Top(t).retval) ]_vars

\* C13, the case: a run whose second Return named a register that was not
\* set returned no value, the first Return having recorded one, and the
\* SetTrue after the two Returns was executed.
C13_Witness ==
    /\ LeftRun(Main)
    /\ frames[Main][1].code = <<"ret_unset">>
    /\ result[Main] = Ok(NoObject)
    /\ frames[Main][1].ran = {0, 1, 2, 3}
    /\ has_register(frames[Main][1].registers, 0)
    /\ get_register_option(frames[Main][1].registers, 2) = true_object

\* The Return instructions a run has dispatched.
ReturnsRan(f) ==
    {i \in f.ran :
        CompiledCode(f.code).instructions[i + 1].instruction_type = "Return"}

\* C14: a run that completes without having executed a Return returns Ok
\* with no value.
C14_NoReturnNoValue ==
    \A t \in ThreadIds :
        /\ (pc[t] = "run" /\ Len(frames[t]) > 0
               /\ Top(t).phase = "returned" /\ ReturnsRan(Top(t)) = {})
           => Top(t).retval = NoObject
        /\ (LeftRun(t) /\ result[t].status = "Ok"
               /\ ReturnsRan(frames[t][1]) = {})
           => result[t].value = NoObject

\* C14, the case: a run that jumped over its Return, with a register set,
\* has returned no value.
C14_Witness ==
    /\ LeftRun(Main)
    /\ frames[Main][1].code = <<"jump">>
    /\ frames[Main][1].ran = {0, 1, 3}
    /\ has_register(frames[Main][1].registers, 0)
    /\ result[Main] = Ok(NoObject)

\* A Send whose arguments are all there: the five fixed ones, the name
\* literal, the receiver, and argc set registers.
SendWellFormed(f, instruction) ==
    /\ \A i \in 0..4 : has_arg(instruction, i)
    /\ has_object(f, instruction, 1)
    /\ arg(instruction, 2) < Len(CompiledCode(f.code).string_literals)
    /\ \A i \in 5..(4 + arg(instruction, 4)) : has_object(f, instruction, i)

\* The three cases in which a Send is refused.
SendRefused(f, instruction) ==
    LET method == send_method(f, instruction)
        method_code == CompiledCode(Deref(method).value.code)
    IN  \/ method = NoObject
        \/ method # NoObject /\ method_code.is_private
              /\ arg(instruction, 3) = 0
        \/ method # NoObject
              /\ arg(instruction, 4) # method_code.required_arguments

Pushes(t) == Len(frames'[t]) = Len(frames[t]) + 1

\* C16: the locals of the frame a Send pushes are the receiver, then the
\* contents of its argument registers in order; those of the frame a RunCode
\* pushes are the contents of its argument registers in order, alone.
C16_CalleeArguments ==
    [][ \A t \in ThreadIds :
          /\ (Dispatches(t, "Send") /\ Pushes(t))
             => LET instruction == InstructionAt(Top(t))
                    argc == arg(instruction, 4)
                IN  /\ Len(TopNext(t).locals) = argc + 1
                    /\ TopNext(t).locals[1] =
                           Top(t).registers[arg(instruction, 1)]
                    /\ \A i \in 0..(argc - 1) :
                          TopNext(t).locals[i + 2] =
                              Top(t).registers[arg(instruction, 5 + i)]
          /\ (Dispatches(t, "RunCode") /\ Pushes(t))
             => LET instruction == InstructionAt(Top(t))
                    argc == Deref(Top(t).registers[arg(instruction, 2)])
                                .value.int
                IN  /\ Len(TopNext(t).locals) = argc
                    /\ \A i \in 0..(argc - 1) :
                          TopNext(t).locals[i + 1] =
                              Top(t).registers[arg(instruction, 3 + i)] ]_vars

\* C16, the case: a Send with the argument registers 2 and 1, which hold
\* false and true, has pushed the frame of a method of two arguments; its
\* locals are the receiver, false, true.
C16_Witness ==
    /\ pc[Main] = "run"
    /\ Len(frames[Main]) = 2
    /\ frames[Main][1].code = <<"send_args", "m2arg">>
    /\ Top(Main).code = <<"m2arg">>
    /\ Top(Main).locals = <<Obj(Main, 1), false_object, true_object>>

\* C17: when the run of a frame pushed by Send, RunCode or RunFileFast
\* returns, the caller's registers are what they were when it returned no
\* value, and what they were with the result slot bound to the value when
\* it returned one.
C17_ResultSlot ==
    [][ \A t \in ThreadIds :
          (/\ pc[t] = "run"
           /\ Len(frames[t]) >= 2
           /\ Top(t).phase = "returned"
           /\ frames'[t] # frames[t])
          => LET n == Len(frames[t])
                 caller == frames[t][n - 1]
                 instruction ==
                     CompiledCode(caller.code).instructions[caller.index]
             IN  /\ instruction.instruction_type
                        \in {"Send", "RunCode", "RunFileFast"}
                 /\ Len(frames'[t]) = n - 1
                 /\ TopNext(t).registers =
                        IF Top(t).retval = NoObject THEN caller.registers
                        ELSE set_register(caller.registers,
                                          arg(instruction, 0), Top(t).retval)
                 /\ Top(t).retval # NoObject
                       => TopNext(t).registers[arg(instruction, 0)]
                              = Top(t).retval ]_vars

\* C17, the case: a Send of a method without Return has returned; its
\* result slot holds the true singleton it held before.
C17_Witness ==
    /\ AtLoopHead(Main)
    /\ Len(frames[Main]) = 1
    /\ Top(Main).code = <<"send", "mnone">>
    /\ Top(Main).ran = {0, 1, 2, 3}
    /\ Top(Main).registers[1] = true_object

\* The k-th object up the prototype chain of h (h itself for 0).
RECURSIVE Ancestor(_, _)
Ancestor(h, k) ==
    IF k = 0 THEN h ELSE Ancestor(Deref(h).prototype, k - 1)

\* The object's own methods of this name.
OwnMethods(h, name) == {m \in Deref(h).methods : m.name = name}

\* The codes the name resolves to from h: that of the own method of the
\* first object up the chain that has one.
NearestCodes(h, name) ==
    {Deref(m.method).value.code :
        m \in UNION {OwnMethods(Ancestor(h, k), name) :
                        k \in {j \in 0..Len(heap[h.owner]) :
                                  /\ OwnMethods(Ancestor(h, j), name) # {}
                                  /\ \A i \in 0..(j - 1) :
                                        OwnMethods(Ancestor(h, i), name) = {}}}}

\* C18: the frame a Send pushes runs the code of the definition nearest to
\* the receiver on its prototype chain; after DefMethod or DefLiteralMethod
\* the receiver's own method of that name is the one just defined, and it
\* alone.
C18_NearestDefinition ==
    [][ \A t \in ThreadIds :
          /\ (Dispatches(t, "Send") /\ Pushes(t))
             => LET instruction == InstructionAt(Top(t))
                IN  NearestCodes(
                        Top(t).registers[arg(instruction, 1)],
                        CompiledCode(Top(t).code).string_literals[
                            arg(instruction, 2) + 1])
                    = {TopNext(t).code}
          /\ (Dispatches(t, "DefLiteralMethod") /\ frames'[t] # frames[t]
                 /\ TopNext(t).phase = "loop")
             => LET instruction == InstructionAt(Top(t))
                    code == CompiledCode(Top(t).code)
                IN  {DerefNext(m.method).value :
                        m \in {d \in DerefNext(Top(t).registers[
                                         arg(instruction, 0)]).methods :
                                  d.name = code.string_literals[
                                               arg(instruction, 1) + 1]}}
                    = {compiled_code(code.code_objects[
                                         arg(instruction, 2) + 1])}
          /\ (pc[t] = "run" /\ frames[t] # <<>> /\ Top(t).phase = "lock"
                 /\ Top(t).want = <<>> /\ frames'[t] # frames[t]
                 /\ TopNext(t).phase = "loop")
             => LET instruction ==
                        CompiledCode(Top(t).code).instructions[Top(t).index]
                    regs == Top(t).registers
                IN  {DerefNext(m.method).value :
                        m \in {d \in DerefNext(regs[arg(instruction, 0)])
                                         .methods :
                                  d.name = Deref(regs[arg(instruction, 1)])
                                               .value.str}}
                    = {Deref(regs[arg(instruction, 2)]).value} ]_vars

\* The integer of the object in register r of the root frame of Main.
RootInteger(r) == Deref(frames[Main][1].registers[r]).value.int

\* C18, the case: the Sends of "m" returned 7 from the prototype's
\* definition, 8 once the receiver had its own, 9 once DefMethod had
\* redefined that, 7 for the prototype itself, and 9 for an object two
\* links below.
C18_Witness ==
    /\ LeftRun(Main)
    /\ frames[Main][1].code = <<"shadow">>
    /\ result[Main].status = "Ok"
    /\ <<RootInteger(2), RootInteger(3), RootInteger(6), RootInteger(7),
         RootInteger(9)>> = <<7, 8, 9, 7, 9>>

\* Thread t's next iteration dispatches a handler of Handle, which fails.
HandlerFails(t) ==
    /\ \E type \in SimpleTypes : Dispatches(t, type)
    /\ Handle(t, Top(t), InstructionAt(Top(t))).err # ""

\* C19: a handler's error, at any depth of invocation, ends the thread's
\* run at once; from then on no frame, register or object of the thread
\* changes (no handler runs, in that invocation or an enclosing one), and
\* run_thread reports the error once: never twice, and once by the time the
\* thread has gone on from error().
C19_ErrorPropagates ==
    [][ \A t \in ThreadIds :
          /\ (HandlerFails(t) /\ frames'[t] # frames[t])
             => /\ result'[t].status = "Err"
                /\ pc'[t] = "remove"
                /\ Len(frames'[t]) = Len(frames[t])
          /\ Raised(t) => frames'[t] = frames[t] /\ heap'[t] = heap[t]
          /\ Len(stderr'[t]) <= 1
          /\ (Raised(t) /\ pc'[t] \in {"stop", "exit", "done"})
             => /\ Len(stderr'[t]) = 1
                /\ stderr'[t][1].message = result[t].message ]_vars

\* C19, the case: a SetInteger failed in a code run by RunCode, in a method
\* run by Send, in a file run by RunFileFast; the four frames are as the
\* failure left them, none ran its next instruction, and the error was
\* written once.
C19_Witness ==
    /\ pc[Main] = "done"
    /\ Raised(Main)
    /\ Len(stderr[Main]) = 1
    /\ Len(frames[Main]) = 4
    /\ [i \in 1..4 |-> frames[Main][i].code]
           = <<<<"nest_fail">>, <<"d_code">>, <<"mrun">>, <<"mfail">>>>
    /\ [i \in 1..4 |-> frames[Main][i].ran]
           = <<{0, 1}, {0, 1, 2}, {0, 1, 2}, {0}>>

\* The File objects of thread t's heap, in the state and after the step.
Files(t) == {i \in 1..Len(heap[t]) : heap[t][i].value.tag = "File"}

FilesNext(t) == {i \in 1..Len(heap'[t]) : heap'[t][i].value.tag = "File"}

\* C20: FileOpen with a mode string that is none of r, r+, w, w+, a, a+
\* binds an object of Error value and no prototype to the result slot,
\* makes no File object, leaves the thread in its loop at the next
\* instruction, and changes neither the exit status nor the thread's
\* result.
C20_InvalidOpenMode ==
    [][ \A t \in ThreadIds :
          (/\ Dispatches(t, "FileOpen")
           /\ \A i \in 0..2 : has_arg(InstructionAt(Top(t)), i)
           /\ \A i \in 1..2 :
                 /\ has_object(Top(t), InstructionAt(Top(t)), i)
                 /\ Deref(Top(t).registers[arg(InstructionAt(Top(t)), i)])
                        .value.tag = "String"
           /\ Deref(Top(t).registers[arg(InstructionAt(Top(t)), 2)])
                  .value.str \notin {"r", "r+", "w", "w+", "a", "a+"}
           /\ frames'[t] # frames[t])
          => LET slot == arg(InstructionAt(Top(t)), 0)
             IN  /\ Len(frames'[t]) = Len(frames[t])
                 /\ TopNext(t).phase = "loop"
                 /\ TopNext(t).index = Top(t).index + 1
                 /\ has_register(TopNext(t).registers, slot)
                 /\ DerefNext(TopNext(t).registers[slot]).value.tag = "Error"
                 /\ DerefNext(TopNext(t).registers[slot]).prototype = NoObject
                 /\ FilesNext(t) = Files(t)
                 /\ pc'[t] = "run"
                 /\ result' = result
                 /\ exit_status' = exit_status ]_vars

\* C20, the case: start has returned success for a code that opened a file
\* with mode "zz"; the run went on to the SetTrue and the Return, and what
\* it returned is an object of Error value.
C20_Witness ==
    /\ returned = "Ok"
    /\ frames[Main][1].code = <<"open", "zz">>
    /\ frames[Main][1].ran = {0, 1, 2, 3, 4}
    /\ result[Main].status = "Ok"
    /\ Deref(result[Main].value).value.tag = "Error"
    /\ Files(Main) = {}


\* The instruction thread t is about to dispatch takes its operands from
\* arguments 1 and 2, and both are integer objects.
IntegerOperands(t) ==
    /\ has_object(Top(t), InstructionAt(Top(t)), 1)
    /\ has_object(Top(t), InstructionAt(Top(t)), 2)
    /\ \A i \in 1..2 :
          Deref(Top(t).registers[arg(InstructionAt(Top(t)), i)]).value.tag
              = "Integer"

\* The integer in the register that argument i of the instruction names.
IntegerOperand(t, i) ==
    Deref(Top(t).registers[arg(InstructionAt(Top(t)), i)]).value.int

\* C21: IntegerDiv and IntegerMod with a zero divisor end in a fatal error
\* of the handler: run returns Err, which run_thread hands to error(), and
\* the thread ends in no other way; no register is written and no object
\* allocated.
C21_ZeroDivisorIsFatalError ==
    [][ \A t \in ThreadIds :
          (/\ Dispatches(t, "IntegerDiv") \/ Dispatches(t, "IntegerMod")
           /\ IntegerOperands(t)
           /\ IntegerOperand(t, 2) = 0
           /\ frames'[t] # frames[t])
          => /\ result'[t].status = "Err"
             /\ pc'[t] = "remove"
             /\ TopNext(t).registers = Top(t).registers
             /\ heap'[t] = heap[t] ]_vars

\* C27: IntegerAdd, IntegerSub and IntegerMul on two integers bind to the
\* result slot a new integer object whose value is the exact result wrapped
\* into the range of isize, and the run goes on, whether or not the exact
\* result is in that range.
C27_ArithmeticWraps ==
    [][ \A t \in ThreadIds :
          \A type \in {"IntegerAdd", "IntegerSub", "IntegerMul"} :
             (/\ Dispatches(t, type)
              /\ IntegerOperands(t)
              /\ frames'[t] # frames[t])
             => LET slot == arg(InstructionAt(Top(t)), 0)
                    r == exact(type, IntegerOperand(t, 1), IntegerOperand(t, 2))
                IN  /\ pc'[t] = "run"
                    /\ TopNext(t).phase = "loop"
                    /\ slot \in DOMAIN TopNext(t).registers
                    /\ TopNext(t).registers[slot] = Obj(t, Len(heap[t]) + 1)
                    /\ DerefNext(TopNext(t).registers[slot])
                          = Object(integer(wrap(r)), integer_prototype) ]_vars

\* The singleton prototype of the objects of a value kind (NoObject for
\* the kinds that have none: plain objects take the prototype the program
\* names, error objects have no prototype).
PrototypeOf(tag) ==
    CASE tag = "Integer" -> {integer_prototype}
      [] tag = "String" -> {string_prototype}
      [] tag = "Array" -> {array_prototype}
      [] tag = "File" -> {file_prototype}
      [] tag = "CompiledCode" -> {compiled_code_prototype, method_prototype}
      [] OTHER -> {}

\* C22: every object a value-producing instruction has allocated carries
\* the singleton prototype of its value kind: integers the integer
\* prototype, strings (the string FileRead makes included) the string
\* prototype, arrays the array prototype, files the file prototype, the
\* objects of compiled code the compiled-code or the method prototype.
C22_PrototypeMatchesValue ==
    \A t \in ThreadIds :
       \A i \in 1..Len(heap[t]) :
          heap[t][i].value.tag
              \in {"Integer", "String", "Array", "File", "CompiledCode"}
          => heap[t][i].prototype \in PrototypeOf(heap[t][i].value.tag)

\* C24: in an invocation that run_code started, GetLocal slot, i binds to
\* the slot local i of the invocation's frame, which run_code made from the
\* arguments (and not anything of the caller), and the run goes on; the
\* locals of the frames below the running one, the caller's among them,
\* stay as they are through the call and the return.
C24_LocalsAreTheArguments ==
    [][ \A t \in ThreadIds :
          /\ (/\ Dispatches(t, "GetLocal")
               /\ Len(frames[t]) > 1
               /\ has_arg(InstructionAt(Top(t)), 1)
               /\ arg(InstructionAt(Top(t)), 1) < Len(Top(t).locals)
               /\ frames'[t] # frames[t])
              => /\ pc'[t] = "run"
                 /\ TopNext(t).phase = "loop"
                 /\ arg(InstructionAt(Top(t)), 0) \in DOMAIN TopNext(t).registers
                 /\ TopNext(t).registers[arg(InstructionAt(Top(t)), 0)]
                       = Top(t).locals[arg(InstructionAt(Top(t)), 1) + 1]
          /\ \A i \in 1..Len(frames[t]) :
                (i <= Len(frames'[t]) /\ (i < Len(frames[t]) \/ Pushes(t)))
                => frames'[t][i].locals = frames[t][i].locals ]_vars

\* C25: SetInteger whose slot argument or literal-index argument is missing,
\* or whose index is outside the code's integer pool, makes run return Err
\* and writes no register; with valid arguments the slot holds a new integer
\* object of the literal's value and the run goes on, to return Ok when
\* the code has no other instruction.
C25_SetIntegerArguments ==
    [][ \A t \in ThreadIds :
          /\ (Dispatches(t, "SetInteger") /\ frames'[t] # frames[t])
              => LET instruction == InstructionAt(Top(t))
                     pool == CompiledCode(Top(t).code).integer_literals
                 IN  IF \/ ~has_arg(instruction, 0)
                        \/ ~has_arg(instruction, 1)
                        \/ arg(instruction, 1) >= Len(pool)
                     THEN /\ result'[t].status = "Err"
                          /\ pc'[t] = "remove"
                          /\ TopNext(t).registers = Top(t).registers
                          /\ heap'[t] = heap[t]
                     ELSE /\ pc'[t] = "run"
                          /\ result'[t] = result[t]
                          /\ TopNext(t).phase = "loop"
                          /\ DOMAIN TopNext(t).registers
                                = DOMAIN Top(t).registers
                                  \cup {arg(instruction, 0)}
                          /\ TopNext(t).registers[arg(instruction, 0)]
                                = Obj(t, Len(heap[t]) + 1)
                          /\ DerefNext(Obj(t, Len(heap[t]) + 1)).value
                                = integer(pool[arg(instruction, 1) + 1])
          /\ (/\ pc[t] = "run"
               /\ pc'[t] = "remove"
               /\ Top(t).code = <<"seti", "valid">>)
              => /\ result'[t].status = "Ok"
                 /\ RootInteger(1)' = 10 ]_vars

\* A SetInteger with an undefined literal has failed on a frame that holds
\* no register.
C25_Witness ==
    /\ pc[Main] = "remove"
    /\ result[Main] = Err("undefined integer literal")
    /\ Top(Main).code = <<"seti", "undef">>
    /\ Top(Main).registers = <<>>
    /\ heap[Main] = <<>>

\* The value of the object in the register that argument i of the
\* instruction thread t is about to dispatch names.
OperandValue(t, i) ==
    Deref(Top(t).registers[arg(InstructionAt(Top(t)), i)]).value

\* The object the step of thread t has bound to the register that
\* argument 0 of the dispatched instruction names.
BoundNext(t) ==
    DerefNext(TopNext(t).registers[arg(InstructionAt(Top(t)), 0)])

\* C26: StringToBytes of a string s binds an array of one integer object
\* per byte of s, each in 0..255, in order; StringFromBytes of an array that
\* holds the bytes of s binds a string equal to s; StringEquals of two equal
\* strings binds the true singleton; so the run that takes s to bytes and
\* back and compares the two returns the true singleton.
C26_BytesRoundTrip ==
    [][ \A t \in ThreadIds :
          /\ (/\ Dispatches(t, "StringToBytes")
               /\ has_object(Top(t), InstructionAt(Top(t)), 1)
               /\ OperandValue(t, 1).tag = "String"
               /\ frames'[t] # frames[t])
              => LET bytes == as_bytes(chars(OperandValue(t, 1).str))
                     elements == BoundNext(t).value.elements
                 IN  /\ pc'[t] = "run"
                     /\ BoundNext(t).value.tag = "Array"
                     /\ Len(elements) = Len(bytes)
                     /\ \A k \in 1..Len(bytes) :
                           /\ DerefNext(elements[k]).value = integer(bytes[k])
                           /\ bytes[k] \in 0..255
          /\ \A s \in ByteStrings :
                (/\ Dispatches(t, "StringFromBytes")
                 /\ has_object(Top(t), InstructionAt(Top(t)), 1)
                 /\ OperandValue(t, 1).tag = "Array"
                 /\ [k \in 1..Len(OperandValue(t, 1).elements) |->
                        Deref(OperandValue(t, 1).elements[k]).value]
                      = [k \in 1..Len(as_bytes(chars(s))) |->
                            integer(as_bytes(chars(s))[k])]
                 /\ frames'[t] # frames[t])
                => /\ pc'[t] = "run"
                   /\ BoundNext(t) = Object(string(s), string_prototype)
          /\ (/\ Dispatches(t, "StringEquals")
               /\ \A i \in 1..2 :
                     /\ has_object(Top(t), InstructionAt(Top(t)), i)
                     /\ OperandValue(t, i).tag = "String"
               /\ OperandValue(t, 1).str = OperandValue(t, 2).str
               /\ frames'[t] # frames[t])
              => TopNext(t).registers[arg(InstructionAt(Top(t)), 0)]
                    = true_object
          /\ (/\ pc[t] = "run"
               /\ pc'[t] = "remove"
               /\ Top(t).code[1] = "bytes")
              => result'[t] = Ok(true_object) ]_vars

\* The string of one character of three bytes went to an array of three
\* integers and back, and the comparison gave the true singleton.
C26_Witness ==
    /\ result[Main] = Ok(true_object)
    /\ frames[Main][1].code = <<"bytes", "U+20AC">>
    /\ Len(heap[Main]) = 6
    /\ heap[Main][1].value.str = heap[Main][6].value.str
    /\ Len(heap[Main][5].value.elements) = 3

\* C28: ArrayRemove slot, arr, index takes out of the array in register arr
\* the element at the position its third argument gives and binds it to
\* slot; the other elements keep their order and the array is one shorter.
C28_ArrayRemoveAtIndex ==
    [][ \A t \in ThreadIds :
          (/\ Dispatches(t, "ArrayRemove")
           /\ has_object(Top(t), InstructionAt(Top(t)), 1)
           /\ OperandValue(t, 1).tag = "Array"
           /\ has_arg(InstructionAt(Top(t)), 2)
           /\ arg(InstructionAt(Top(t)), 2) < Len(OperandValue(t, 1).elements)
           /\ frames'[t] # frames[t])
          => LET old == OperandValue(t, 1).elements
                 index == arg(InstructionAt(Top(t)), 2)
                 new == DerefNext(Top(t).registers[
                            arg(InstructionAt(Top(t)), 1)]).value.elements
             IN  /\ pc'[t] = "run"
                 /\ TopNext(t).registers[arg(InstructionAt(Top(t)), 0)]
                       = old[index + 1]
                 /\ Len(new) = Len(old) - 1
                 /\ new = SubSeq(old, 1, index)
                          \o SubSeq(old, index + 2, Len(old)) ]_vars

\* C29: StdoutWrite of a string always binds its result register, to a new
\* integer of the number of bytes the host took or else to an error object,
\* and the run goes on with the next instruction; of a register that is
\* not set or holds no string, it is an error of the handler, and no
\* register is written and nothing is put out.
C29_StdoutWriteBinds ==
    [][ \A t \in ThreadIds :
          (/\ Dispatches(t, "StdoutWrite")
           /\ has_arg(InstructionAt(Top(t)), 0)
           /\ has_arg(InstructionAt(Top(t)), 1)
           /\ frames'[t] # frames[t])
          => IF /\ has_object(Top(t), InstructionAt(Top(t)), 1)
                /\ OperandValue(t, 1).tag = "String"
             THEN LET bytes == as_bytes(chars(OperandValue(t, 1).str))
                  IN  /\ pc'[t] = "run"
                      /\ result'[t] = result[t]
                      /\ TopNext(t).phase = "loop"
                      /\ TopNext(t).index = Top(t).index + 1
                      /\ TopNext(t).registers[arg(InstructionAt(Top(t)), 0)]
                            = Obj(t, Len(heap[t]) + 1)
                      /\ \/ /\ BoundNext(t).value.tag = "Error"
                            /\ BoundNext(t).prototype = NoObject
                         \/ \E n \in 0..Len(bytes) :
                               /\ BoundNext(t)
                                    = Object(integer(n), integer_prototype)
                               /\ stdout' = stdout \o SubSeq(bytes, 1, n)
             ELSE /\ result'[t].status = "Err"
                  /\ pc'[t] = "remove"
                  /\ TopNext(t).registers = Top(t).registers
                  /\ heap'[t] = heap[t]
                  /\ stdout' = stdout ]_vars

\* A run wrote the three bytes of "abc", went on, and returned the integer
\* 3 that StdoutWrite had bound.
C29_Witness ==
    /\ frames[Main] # <<>>
    /\ frames[Main][1].code = <<"out", "string">>
    /\ stdout = <<97, 98, 99>>
    /\ result[Main].status = "Ok"
    /\ Deref(result[Main].value) = Object(integer(3), integer_prototype)
    /\ 3 \in frames[Main][1].ran

\* The instruction types whose handler binds an object it has allocated.
AllocatingTypes ==
    {"SetInteger", "SetString", "SetObject", "SetCompiledCode",
     "StringToBytes", "StringFromBytes", "FileOpen", "FileRead",
     "StdoutWrite"} \cup ArithmeticTypes

\* The handles the handler of the instruction thread t dispatches may bind
\* to its slot: the object it allocates last, or the object it looks up
\* (a singleton, the content of a register, an element of the array).
BindsNext(t) ==
    LET type == InstructionAt(Top(t)).instruction_type
    IN  CASE type \in AllocatingTypes ->
               IF Len(heap'[t]) > Len(heap[t])
               THEN {Obj(t, Len(heap'[t]))} ELSE {}
          [] type = "SetTrue" -> {true_object}
          [] type = "SetFalse" -> {false_object}
          [] type = "StringEquals" -> {true_object, false_object}
          [] type = "GetToplevel" -> {top_level}
          [] type = "GetStringPrototype" -> {string_prototype}
          [] type = "GetLocal" ->
               {Top(t).registers[s] : s \in DOMAIN Top(t).registers}
               \cup {Top(t).locals[i] : i \in 1..Len(Top(t).locals)}
          [] type \in {"ArrayAt", "ArrayRemove"} ->
               {OperandValue(t, 1).elements[i] :
                   i \in 1..Len(OperandValue(t, 1).elements)}
          [] OTHER -> {}

\* C23: an instruction that sets a register leaves its slot with exactly
\* the object it allocated or looked up and every other register of its
\* frame as it was.  For Send, RunCode and RunFileFast the instruction
\* lasts from the push of the callee's frame to its pop: nothing the callee
\* does on the thread changes a register of a frame below its own, and the
\* pop binds the callee's value, when there is one, to the caller's slot
\* alone.  StartThread binds the new thread object to its slot alone.
C23_OnlyTheSlotChanges ==
    [][ \A t \in ThreadIds :
          (frames[t] # <<>> /\ frames'[t] # frames[t])
          => LET n == Len(frames[t])
                 regs == Top(t).registers
             IN  /\ \A i \in 1..(n - 1) :
                       i < Len(frames'[t])
                       => frames'[t][i].registers = frames[t][i].registers
                 /\ Len(frames'[t]) = n + 1
                       => frames'[t][n].registers = regs
                 /\ Len(frames'[t]) = n - 1
                       => \/ TopNext(t).registers = frames[t][n - 1].registers
                          \/ /\ Top(t).retval # NoObject
                             /\ TopNext(t).registers
                                  = set_register(frames[t][n - 1].registers,
                                                 frames[t][n - 1].slot,
                                                 Top(t).retval)
                 /\ Len(frames'[t]) = n
                       => \/ TopNext(t).registers = regs
                          \/ /\ Top(t).phase = "allocated"
                             /\ TopNext(t).registers
                                  = set_register(regs, Top(t).slot,
                                                 ThreadObj(Top(t).child))
                          \/ /\ AtLoopHead(t)
                             /\ Top(t).index
                                  < Len(CompiledCode(Top(t).code).instructions)
                             /\ has_arg(InstructionAt(Top(t)), 0)
                             /\ \E h \in BindsNext(t) :
                                   TopNext(t).registers
                                     = set_register(
                                           regs, arg(InstructionAt(Top(t)), 0),
                                           h) ]_vars

\* A RunCode whose callee set registers 0 and 1 of its own frame has
\* returned: the caller's slot 2 holds the callee's value, an integer 7, and
\* its registers 0, 1 and 3 what they held before the call.
C23_Witness ==
    /\ result[Main].status = "Ok"
    /\ frames[Main][1].code = <<"run_args", "m7">>
    /\ DOMAIN frames[Main][1].registers = 0..3
    /\ Deref(frames[Main][1].registers[0]).value.tag = "CompiledCode"
    /\ RootInteger(1) = 2
    /\ RootInteger(2) = 7
    /\ frames[Main][1].registers[3] = false_object

\* C30: two threads whose handlers each lock two operand objects never both
\* wait for an object lock that the other holds.
C30_NoLockCycle ==
    \A t \in ThreadIds :
       \A u \in ThreadIds \ {t} :
          LET waits(a, b) ==
                  /\ pc[a] = "run"
                  /\ frames[a] # <<>>
                  /\ Top(a).phase = "lock"
                  /\ Top(a).want # <<>>
                  /\ \E i \in 1..Len(frames[b]) :
                        \E l \in frames[b][i].held :
                           /\ l.object = Head(Top(a).want).object
                           /\ "write" \in {l.mode, Head(Top(a).want).mode}
          IN  ~(waits(t, u) /\ waits(u, t))

\* C31: the prototype chain of every object ends, without coming back to
\* the object: SetObject links the object it makes to one that exists
\* already, and no step gives an existing object another prototype.
C31_PrototypeChainsEnd ==
    /\ [](\A t \in ThreadIds :
            \A i \in 1..Len(heap[t]) :
               \A k \in 1..Cardinality(UNION {{<<u, j>> : j \in 1..Len(heap[u])} :
                                                 u \in ThreadIds}) :
                  Ancestor(Obj(t, i), k) # Obj(t, i))
    /\ [][ \A t \in ThreadIds :
              \A i \in 1..Len(heap[t]) :
                 heap'[t][i].prototype = heap[t][i].prototype ]_vars

\* C31, the case: a run has made a chain of three objects, the second one
\* in the slot that held its prototype.
C31_Witness ==
    /\ LeftRun(Main)
    /\ frames[Main][1].code = <<"chain">>
    /\ result[Main] = Ok(Obj(Main, 3))
    /\ <<heap[Main][1].prototype, heap[Main][2].prototype,
         heap[Main][3].prototype>> = <<NoObject, Obj(Main, 1), Obj(Main, 2)>>

\* C32: on every state of the condition register exactly one of GotoIfTrue
\* and GotoIfFalse reports a branch: GotoIfFalse when the register is unset
\* or holds an object that is not truthy, GotoIfTrue when it is set and
\* holds a truthy one; the one that executes changes no register, local or
\* object.
C32_OneBranchReports ==
    [][ \A t \in ThreadIds :
          \A type \in {"GotoIfTrue", "GotoIfFalse"} :
             (/\ Dispatches(t, type)
              /\ has_arg(InstructionAt(Top(t)), 0)
              /\ has_arg(InstructionAt(Top(t)), 1)
              /\ frames'[t] # frames[t])
             => LET instruction == InstructionAt(Top(t))
                    value == get_register_option(Top(t).registers,
                                                 arg(instruction, 1))
                    holds == value # NoObject /\ truthy(value)
                    if_true == ins_goto_if_true(t, Top(t), instruction)
                    if_false == ins_goto_if_false(t, Top(t), instruction)
                IN  /\ (if_true.target # NoTarget) = holds
                    /\ (if_false.target # NoTarget) = ~holds
                    /\ if_true.err = "" /\ if_false.err = ""
                    /\ TopNext(t).skip_until # NoTarget
                          => TopNext(t).skip_until = arg(instruction, 0)
                    /\ (TopNext(t).skip_until # NoTarget)
                          = (holds = (type = "GotoIfTrue"))
                    /\ TopNext(t).registers = Top(t).registers
                    /\ TopNext(t).locals = Top(t).locals
                    /\ heap' = heap ]_vars

\* C32, the case: a run has executed GotoIfFalse on a register that was
\* never set, the branch was reported, and the run went on.
C32_Witness ==
    /\ LeftRun(Main)
    /\ frames[Main][1].code = <<"cond", "GotoIfFalse", "unset">>
    /\ frames[Main][1].ran = {0, 1, 2}
    /\ ~has_register(frames[Main][1].registers, 0)
    /\ result[Main].status = "Ok"

\* C33: after Goto target the next handler executed is that of the
\* instruction at index target, a target at or before the Goto included,
\* or run ends when the target is at or beyond the instruction count; Goto
\* changes no register, local or object.
C33_GotoSetsNextIndex ==
    [][ \A t \in ThreadIds :
          /\ (Dispatches(t, "Goto") /\ has_arg(InstructionAt(Top(t)), 0)
                 /\ frames'[t] # frames[t])
             => /\ Len(frames'[t]) = Len(frames[t])
                /\ TopNext(t).index = arg(InstructionAt(Top(t)), 0)
                /\ TopNext(t).skip_until = NoTarget
                /\ TopNext(t).phase = "loop"
                /\ TopNext(t).registers = Top(t).registers
                /\ TopNext(t).locals = Top(t).locals
                /\ heap' = heap
          /\ (AtLoopHead(t) /\ Top(t).skip_until = NoTarget
                 /\ frames'[t] # frames[t])
             => LET frame == frames'[t][Len(frames[t])]
                IN  IF Top(t).index
                          < Len(CompiledCode(Top(t).code).instructions)
                    THEN frame.ran = Top(t).ran \cup {Top(t).index}
                    ELSE frame.phase # "loop" /\ frame.ran = Top(t).ran ]_vars

\* C33, the case: a run has executed a Goto to index 0, before the Goto,
\* and is about to execute the instruction at index 0 again.
C33_Witness ==
    /\ AtLoopHead(Main)
    /\ frames[Main][1].code = <<"goto", "0">>
    /\ frames[Main][1].ran = {0, 1}
    /\ frames[Main][1].index = 0

\* C34: run_code pushes exactly one call frame before run and pops exactly
\* one after run has returned without a fatal error, the return at once of
\* a thread told to stop included, at every depth; between the two no step
\* touches a frame below the running one, so the chain of call frames after
\* the invocation is the chain before it.
C34_FramesBalanced ==
    [][ \A t \in ThreadIds :
          LET n == Len(frames[t])
              below(k) == \A i \in 1..(k - 1) : frames'[t][i] = frames[t][i]
          IN  /\ (n > 0 /\ frames'[t] # frames[t])
                 => \/ /\ Len(frames'[t]) = n
                       /\ below(n)
                       /\ TopNext(t).code = Top(t).code
                       /\ ~(n > 1 /\ Top(t).phase = "returned")
                    \/ /\ Len(frames'[t]) = n + 1
                       /\ below(n)
                       /\ frames'[t][n].code = Top(t).code
                       /\ frames'[t][n].phase = "call"
                       /\ TopNext(t).phase = "entry"
                    \/ /\ Len(frames'[t]) = n - 1
                       /\ below(n - 1)
                       /\ Top(t).phase = "returned"
                       /\ frames[t][n - 1].phase = "call"
                       /\ TopNext(t).code = frames[t][n - 1].code
                       /\ TopNext(t).phase = "loop"
              /\ (pc[t] = "run" /\ n > 1 /\ Top(t).phase = "entry"
                     /\ thread[t].should_stop /\ frames'[t] # frames[t])
                 => Len(frames'[t]) = n /\ TopNext(t).phase = "returned" ]_vars

\* C34, the case: a worker told to stop while it entered a nested
\* invocation is back on its root frame, and the invocation bound no value
\* (the file's code returns one when it runs).
C34_Witness ==
    \E w \in Workers :
        /\ thread[w].should_stop
        /\ pc[w] = "run"
        /\ Len(frames[w]) = 1
        /\ Top(w).code = <<"deep">>
        /\ Top(w).phase = "loop"
        /\ 0 \in Top(w).ran
        /\ ~has_register(Top(w).registers, 0)

\* C35: a handler given fewer instruction arguments than it needs fails
\* with a handler error, fatal for its thread: an instruction without
\* arguments, and a Send or RunCode whose declared argument count exceeds
\* the argument registers the instruction names; the thread ends in no
\* other way.
C35_MissingArgumentIsHandlerError ==
    [][ \A t \in ThreadIds :
          (/\ AtLoopHead(t)
           /\ Top(t).index < Len(CompiledCode(Top(t).code).instructions)
           /\ ~(Top(t).skip_until # NoTarget
                   /\ Top(t).index < Top(t).skip_until)
           /\ frames'[t] # frames[t]
           /\ LET instruction == InstructionAt(Top(t))
                  given == Len(instruction.arguments)
              IN  \/ given = 0
                  \/ /\ instruction.instruction_type = "Send"
                     /\ given >= 5
                     /\ given < 5 + arg(instruction, 4)
                  \/ /\ instruction.instruction_type = "RunCode"
                     /\ given >= 3
                     /\ has_object(Top(t), instruction, 2)
                     /\ OperandValue(t, 2).tag = "Integer"
                     /\ given < 3 + OperandValue(t, 2).int)
          => /\ result'[t].status = "Err"
             /\ pc'[t] = "remove" ]_vars

\* C36: no thread waits for an object lock that a guard of its own
\* excludes: a handler whose two operand registers hold one object takes
\* its locks and completes.
C36_NoLockOnOwnGuard ==
    \A t \in ThreadIds :
       (pc[t] = "run" /\ frames[t] # <<>> /\ Top(t).phase = "lock"
           /\ Top(t).want # <<>>)
       => \A i \in 1..Len(frames[t]) :
             \A l \in frames[t][i].held :
                l.object = Head(Top(t).want).object
                => (l.mode = "read" /\ Head(Top(t).want).mode = "read")

\* C37: a taken GotoIfTrue or GotoIfFalse leaves the index at the
\* instruction after the branch, and when its target is at or before that
\* index the next iteration clears the skip window and executes that
\* instruction as it would have been executed without the branch.
C37_NearTargetFallsThrough ==
    [][ \A t \in ThreadIds :
          /\ (/\ \E type \in {"GotoIfTrue", "GotoIfFalse"} : Dispatches(t, type)
               /\ frames'[t] # frames[t]
               /\ TopNext(t).phase = "loop")
             => /\ Len(frames'[t]) = Len(frames[t])
                /\ TopNext(t).index = Top(t).index + 1
          /\ (/\ AtLoopHead(t)
               /\ Top(t).skip_until # NoTarget
               /\ Top(t).skip_until <= Top(t).index
               /\ Top(t).index < Len(CompiledCode(Top(t).code).instructions)
               /\ InstructionAt(Top(t)).instruction_type \in SimpleTypes
               /\ frames'[t] # frames[t])
             => LET after == [Top(t) EXCEPT !.skip_until = NoTarget,
                                            !.index = @ + 1]
                    instruction == InstructionAt(Top(t))
                    type == instruction.instruction_type
                    o == Handle(t, after, instruction)
                IN  /\ Len(frames'[t]) = Len(frames[t])
                    /\ TopNext(t).ran = Top(t).ran \cup {Top(t).index}
                    /\ o.err = ""
                       => /\ TopNext(t).registers = o.registers
                          /\ TopNext(t).index = IF type = "Goto" THEN o.target
                                                ELSE Top(t).index + 1
                          /\ TopNext(t).skip_until =
                                IF type \in {"GotoIfTrue", "GotoIfFalse"}
                                THEN o.target ELSE NoTarget
                          /\ TopNext(t).retval = IF type = "Return" THEN o.value
                                                 ELSE Top(t).retval ]_vars

\* C37, the case: a run took a branch to index 0 from index 1 and went on
\* with the instructions after the branch, once each, to its Return.
C37_Witness ==
    /\ LeftRun(Main)
    /\ frames[Main][1].code = <<"back">>
    /\ frames[Main][1].ran = {0, 1, 2, 3}
    /\ Len(heap[Main]) = 1
    /\ result[Main] = Ok(Obj(Main, 1))

\* C38: the path of a file that failed to parse stays in the executed
\* files, and a later RunFileFast of that path, by any thread, does
\* nothing: it does not parse the file again, raises no error, binds no
\* register, and the run goes on with the next instruction.
C38_FailedPathIsNotRetried ==
    [][ \A t \in ThreadIds :
          /\ (pc[t] = "run" /\ frames[t] # <<>> /\ Top(t).phase = "parse"
                 /\ parse_file(Top(t).path) = <<>> /\ frames'[t] # frames[t])
             => /\ Top(t).path \in executed_files'
                /\ result'[t].status = "Err"
          /\ (/\ Dispatches(t, "RunFileFast")
               /\ has_arg(InstructionAt(Top(t)), 0)
               /\ has_arg(InstructionAt(Top(t)), 1)
               /\ arg(InstructionAt(Top(t)), 1)
                     < Len(CompiledCode(Top(t).code).string_literals)
               /\ frames'[t] # frames[t]
               /\ LET path == CompiledCode(Top(t).code).string_literals[
                                  arg(InstructionAt(Top(t)), 1) + 1]
                  IN  parsed[path] > 0 /\ parse_file(path) = <<>>)
             => /\ parsed' = parsed
                /\ executed_files' = executed_files
                /\ result'[t] = result[t]
                /\ pc'[t] = "run"
                /\ Len(frames'[t]) = Len(frames[t])
                /\ TopNext(t).phase = "loop"
                /\ TopNext(t).index = Top(t).index + 1
                /\ TopNext(t).registers = Top(t).registers ]_vars

\* C38, the case: a worker has failed on the parse of "bad", and for the
\* main thread the RunFileFast of "bad" after that was a no-op: the file
\* was parsed once and the main thread is at its next instruction.
C38_Witness ==
    /\ parsed["bad"] = 1
    /\ \E w \in Workers : result[w].message = "Failed to parse"
    /\ AtLoopHead(Main)
    /\ Top(Main).code = <<"root_bad">>
    /\ Top(Main).index = 2
    /\ ~has_register(Top(Main).registers, 1)

\* C39: a thread object is in the thread list from its allocation until
\* its run is over, and at no other time: by the time its value is stored
\* or its error reported it is out of the list and unpinned, stop() does
\* not set should_stop on the thread that failed, and when every thread is
\* over the list is empty.
C39_ListedWhileRunning ==
    /\ [](\A t \in ThreadIds :
            /\ (t \in threads)
                  = (thread[t].allocated /\ pc[t] \in {"recv", "run", "remove"})
            /\ pc[t] \in {"finish", "stop", "exit", "done"}
                  => ~thread[t].pinned)
    /\ []((\A t \in ThreadIds : pc[t] \in {"free", "done", "panicked"})
             => threads = {})
    /\ [][ \A t \in ThreadIds :
              pc[t] = "stop"
              => thread'[t].should_stop = thread[t].should_stop ]_vars

\* C40: a handler's failure pops no call frame, those of the run_code
\* invocations that are active included, and none is popped before error
\* has reported it; the backtrace error writes has one entry for each
\* active invocation and one for the root frame, the failing frame first.
C40_BacktraceListsActiveFrames ==
    [][ \A t \in ThreadIds :
          LET n == Len(frames[t])
          IN  /\ (pc[t] = "run" /\ result'[t].status = "Err")
                 => /\ Len(frames'[t]) = n
                    /\ \A i \in 1..n : frames'[t][i].code = frames[t][i].code
              /\ (Raised(t) /\ pc[t] \in {"remove", "unpin", "finish"})
                 => frames'[t] = frames[t]
              /\ stderr'[t] # stderr[t]
                 => /\ Raised(t)
                    /\ stderr'[t] = Append(stderr[t],
                          [message |-> result[t].message,
                           backtrace |-> [i \in 1..n |->
                                             frames[t][n + 1 - i].code]]) ]_vars

\* C40, the case: a SetInteger failed with three run_code invocations
\* active (RunCode in a method sent in a file run by RunFileFast), and the
\* backtrace written has four entries.
C40_Witness ==
    /\ Raised(Main)
    /\ Len(stderr[Main]) = 1
    /\ stderr[Main][1].backtrace
          = <<<<"mfail">>, <<"mrun">>, <<"d_code">>, <<"nest_fail">>>>
====
